---- MODULE Spec2Model ----
(***************************************************************************)
(* Duplex streaming session core of the customer-care voice agent:        *)
(* GeminiLiveService (connect / handleMessage / disconnect), the playback *)
(* scheduler state it owns (nextStartTime, sources), the tool-call broker  *)
(* loop that awaits searchKnowledgeBase, the microphone capture callback   *)
(* and the App handlers that create, replace and stop service instances.  *)
(*                                                                         *)
(* The browser event loop is modelled as it runs the code: every action   *)
(* is one task (a callback run up to its next await); promise reactions   *)
(* registered with .then on an already resolved promise are microtasks    *)
(* and run, in registration order, before any other task (variable jobs). *)
(***************************************************************************)
EXTENDS Integers, Sequences, FiniteSets, TLC

\* ---------------------------------------------------------------- bounds
MaxMsgs == 2          \* inbound messages delivered to handleMessage
MaxFairMsgs == 1      \* the same, in the specification with fairness
MaxClock == 1         \* highest value of outputAudioContext.currentTime
MaxDur == 1           \* longest decoded audio buffer
MaxChunks == 2        \* onaudioprocess callbacks of one instance
MaxStarts == 2        \* service instances created by handleStart
MaxAppMsgs == 1       \* inbound messages of one instance under the App handlers
SampleUnit == 2       \* samples are the multiples of 1/SampleUnit
MaxBlock == 2         \* samples in one block given to onaudioprocess
MaxAdds == 1          \* entries created by addDatabaseEntry
MaxSearches == 1      \* searches of the admin view pending together
MaxStreamed == 3      \* chunks the model streams to one text query
MaxSubmits == 1       \* text submissions

\* ------------------------------------------------------------- constants
KB_TOOL == "search_knowledge_base"
OTHER_TOOL == "other_tool"

VARIABLES
  connectPc,          \* position of connect(): idle, awaitMic, awaitLive, done, failed
  connState,          \* last state passed to callbacks.onStateChange
  sessionPromise,     \* this.sessionPromise: "null" or "set"
  sessionResolved,    \* the promise created in connect() has been resolved
  thenQ,              \* reactions registered on the still pending session promise
  jobs,               \* microtask queue: reactions ready to run
  inputAudioContext,  \* this.inputAudioContext # null
  outputAudioContext, \* this.outputAudioContext # null
  outputNode,         \* this.outputNode # null
  stream,             \* this.stream # null
  capturing,          \* processor.onaudioprocess installed and connected
  transport,          \* the live session: none, connecting, open, closing, closed
  clock,              \* outputAudioContext.currentTime
  nextStartTime,      \* this.nextStartTime
  sources,            \* this.sources, as the set of messages whose buffer is live
  handlers,           \* one record per invocation of handleMessage
  lookupQ,            \* pending searchKnowledgeBase timers, in creation order
  log,                \* history of observable events
  tracksLive,         \* the tracks of this.stream have not been stopped
  chunks,             \* number of onaudioprocess callbacks run so far
  readers,            \* chunks whose FileReader has not fired onload yet
  serviceRef,         \* App: serviceRef.current, 0 for null, else the instance
  connectionState,    \* App: connectionState
  logs,               \* App: number of entries of logs
  transcripts,        \* App: transcripts
  focus,              \* the instance whose fields the variables above hold
  others,             \* the fields of the other instances, by instance
  inputData,          \* the block of samples the microphone delivers to onaudioprocess
  runtimeDatabase,    \* mockRagService: runtimeDatabase
  added,              \* number of entries addDatabaseEntry has created
  searches,           \* admin view: pending searchKnowledgeBase timers (their queries)
  found,              \* admin view: the last search resolved, <<>> before the first
  apiKey,             \* process.env.API_KEY is set
  tpc,                \* position of processTextQuery: idle, stream1, lookup,
                      \* stream2, tts, returned, thrown
  textAcc,            \* processTextQuery: textAcc
  outcome,            \* consumeStream of an answer stream: its textAcc
  tokens,             \* the texts passed to onToken, in order
  funcCalls,          \* processTextQuery: funcCalls
  fcPos,              \* position of the loop over funcCalls
  streamed,           \* chunks the model has streamed so far
  tlog,               \* history of the calls processTextQuery has made
  ret,                \* the value processTextQuery returned, <<>> if none
  isProcessingText,   \* App: isProcessingText
  spc,                \* position of handleTextSubmit: idle, query, decode
  submits,            \* text submissions so far
  placeholder,        \* pending timers that add the empty agent entry
  ttsSourceRef,       \* App: ttsSourceRef.current, 0 for null, else the source
  ttsCount,           \* buffer sources created for text answers
  ttsPlaying          \* text-answer sources started and neither stopped nor ended

\* the fields of one service instance
svcVars == <<connectPc, connState, sessionPromise, sessionResolved, thenQ, jobs,
             inputAudioContext, outputAudioContext, outputNode, stream, capturing,
             transport, clock, nextStartTime, sources, handlers, lookupQ, log,
             tracksLive, chunks, readers>>

\* what the callbacks given to the constructor write
uiVars == <<connectionState, logs, transcripts>>

\* what only the App handlers write
refVars == <<serviceRef, focus, others>>

\* the microphone
capVars == <<inputData>>

\* the knowledge store and the searches called on it from outside a session
kbVars == <<runtimeDatabase, added, searches, found>>

\* the text agent
textVars == <<apiKey, tpc, textAcc, outcome, tokens, funcCalls, fcPos, streamed,
              tlog, ret>>

\* the text mode of the App
subVars == <<isProcessingText, spc, submits, placeholder, ttsSourceRef, ttsCount,
             ttsPlaying>>

\* what no method of the service writes
extVars == <<capVars, kbVars, textVars, subVars>>

vars == <<svcVars, uiVars, refVars, extVars>>

\* --------------------------------------------------------------- helpers
Max(a, b) == IF a >= b THEN a ELSE b

\* One history event.  h: message number, k: invocation index in the message.
Ev(type, h, k) ==
  [type |-> type, h |-> h, k |-> k, t |-> 0, d |-> 0, c |-> 0,
   id |-> 0, name |-> "", query |-> <<>>, text |-> "", set |-> {}, open |-> FALSE]

\* ------------------------------------------------- knowledge lookup (RAG)
\* Queries and keywords are sequences of words; String.includes is the
\* occurrence of the keyword as a contiguous run of words.
ToLowerCaseWord(w) ==
  CASE w = "Return" -> "return"
    [] w = "WIFI" -> "wifi"
    [] w = "Policy" -> "policy"
    [] OTHER -> w

toLowerCase(q) == [i \in 1..Len(q) |-> ToLowerCaseWord(q[i])]

includes(q, kw) ==
  \E i \in 1..(Len(q) + 1) :
    /\ i + Len(kw) - 1 <= Len(q)
    /\ SubSeq(q, i, i + Len(kw) - 1) = kw

INITIAL_DATA ==
  << [id |-> "pol-1", keywords |-> { <<"return">>, <<"refund">> },
      content |->
        "POLICY_REFUND_V4: Items can be returned within 30 days of receipt. Items must be unworn with tags. Electronics have a 15% restocking fee unless defective. Processing time: 3-5 business days."],
     [id |-> "ord-3", keywords |-> { <<"order", "status">>, <<"my", "order">> },
      content |->
        "SCRIPT_ORDER_CHECK: I can check that for you. May I have your 5-digit Order Number? (Valid mock numbers for demo: 12345, 99999)"],
     [id |-> "tech-2", keywords |-> { <<"router">>, <<"wifi">> },
      content |->
        "KB_HARDWARE_ROUTER: If the 'Link' light is blinking orange, it means no downstream signal. Instruct customer to unplug power for 30 seconds (Power Cycle)."] >>

INDEX_POLICIES == "INDEX_POLICIES"
NOT_FOUND == "RAG_SEARCH_RESULT: No specific document found"

\* mutant: the keyword test is lost and every entry passes the filter
filterMatches_All(db, lowerQuery) == db

RECURSIVE filterMatches(_, _)
filterMatches(db, lowerQuery) ==
  IF db = <<>> THEN <<>>
  ELSE LET rest == filterMatches(Tail(db), lowerQuery)
       IN IF \E kw \in Head(db).keywords : includes(lowerQuery, kw)
          THEN <<Head(db)>> \o rest
          ELSE rest

\* The text searchKnowledgeBase resolves to once its timer has fired.
searchKnowledgeBase(query, db) ==
  LET lowerQuery == toLowerCase(query)
      matches == filterMatches(db, lowerQuery)
  IN IF Len(matches) > 0 THEN matches[1].content
     ELSE IF includes(lowerQuery, <<"policy">>) THEN INDEX_POLICIES
     ELSE NOT_FOUND

\* --------------------------------------------------------- inbound events
Q_RETURN == <<"Return", "Policy">>
Q_WIFI == <<"my", "WIFI">>
Q_NONE == <<"hello">>
Q_BOTH == <<"my", "order", "WIFI">>
Q_POLICY == <<"Policy">>
Q_EMPTY == <<>>

Call(name, query) == [name |-> name, query |-> query]

\* functionCalls arrays carried by a toolCall message (ids are given on delivery)
CallSeqs ==
  { << Call(KB_TOOL, Q_RETURN) >>,
    << Call(KB_TOOL, Q_RETURN), Call(KB_TOOL, Q_WIFI) >>,
    << Call(OTHER_TOOL, Q_NONE), Call(KB_TOOL, Q_WIFI) >>,
    << Call(KB_TOOL, Q_NONE), Call(OTHER_TOOL, Q_RETURN), Call(KB_TOOL, Q_RETURN) >> }

\* the longest functionCalls array
MaxCalls == CHOOSE n \in 0..8 : /\ \E cs \in CallSeqs : Len(cs) = n
                              /\ \A cs \in CallSeqs : Len(cs) <= n

\* serverContent messages: inline audio (0 = none) and/or the interrupted flag
\* (input and output are the texts of inputTranscription and
\* outputTranscription, <<>> when absent or empty)
AudioMsgs ==
  { [audio |-> a, interrupted |-> i, input |-> <<>>, output |-> <<>>, calls |-> <<>>] :
      a \in 0..MaxDur, i \in BOOLEAN }
  \ { [audio |-> 0, interrupted |-> FALSE, input |-> <<>>, output |-> <<>>, calls |-> <<>>] }

\* toolCall messages
ToolMsgs ==
  { [audio |-> 0, interrupted |-> FALSE, input |-> <<>>, output |-> <<>>, calls |-> cs] :
      cs \in CallSeqs }

\* messages carrying transcriptions, alone or with audio, the interrupted
\* flag and a toolCall, and one whose transcription text is empty
Msg(a, i, in, out, cs) ==
  [audio |-> a, interrupted |-> i, input |-> in, output |-> out, calls |-> cs]

MixedMsgs ==
  { Msg(0, FALSE, <<"a">>, <<>>, <<>>),
    Msg(0, FALSE, <<>>, <<"b">>, <<>>),
    Msg(0, FALSE, <<>>, <<>>, <<>>),
    Msg(1, FALSE, <<>>, <<>>, <<>>),
    Msg(1, TRUE, <<"a">>, <<"b">>, << Call(KB_TOOL, Q_RETURN) >>) }

\* the id the remote stream gave invocation k of message h
CallId(h, k) == (h - 1) * MaxCalls + k

\* --------------------------------------------------------- audio samples
\* A sample n stands for the number n / SampleUnit; the microphone may
\* overshoot the nominal range [-1, 1] by one step.
Samples == (0 - SampleUnit - 1)..(SampleUnit + 1)

InRange(n) == 0 - SampleUnit <= n /\ n <= SampleUnit

\* `e.inputBuffer.getChannelData(0)`: the blocks of the fixed size
Blocks == [1..MaxBlock -> Samples]

Silence == [i \in 1..MaxBlock |-> 0]

Abs(n) == IF n < 0 THEN 0 - n ELSE n

\* ------------------------------------------------------------------ Init
\* The App is mounted and the fields of the instance in focus have the values
\* `new GeminiLiveService(callbacks)` gives them.
InitSession ==
  /\ connectPc = "idle"
  /\ connState = "DISCONNECTED"
  /\ sessionPromise = "null"
  /\ sessionResolved = FALSE
  /\ thenQ = <<>>
  /\ jobs = <<>>
  /\ inputAudioContext = FALSE
  /\ outputAudioContext = FALSE
  /\ outputNode = FALSE
  /\ stream = FALSE
  /\ capturing = FALSE
  /\ transport = "none"
  /\ clock = 0
  /\ nextStartTime = 0
  /\ sources = {}
  /\ handlers = <<>>
  /\ lookupQ = <<>>
  /\ log = <<>>
  /\ tracksLive = FALSE
  /\ chunks = 0
  /\ readers = {}
  /\ serviceRef = 0
  /\ connectionState = "DISCONNECTED"
  /\ logs = 0
  /\ transcripts = <<>>
  /\ focus = 1
  /\ others = <<>>

\* The knowledge store as the module is loaded with nothing saved.
InitStore ==
  /\ runtimeDatabase = INITIAL_DATA
  /\ added = 0
  /\ searches = <<>>
  /\ found = <<>>

\* No text query has been submitted.
InitText ==
  /\ tpc = "idle"
  /\ textAcc = ""
  /\ outcome = ""
  /\ tokens = <<>>
  /\ funcCalls = <<>>
  /\ fcPos = 0
  /\ streamed = 0
  /\ tlog = <<>>
  /\ ret = <<>>

\* Nothing has been submitted and no text answer has been played.
InitSubmit ==
  /\ isProcessingText = FALSE
  /\ spc = "idle"
  /\ submits = 0
  /\ placeholder = 0
  /\ ttsSourceRef = 0
  /\ ttsCount = 0
  /\ ttsPlaying = {}

\* The microphone is silent and the API key is set.
Init ==
  /\ InitSession
  /\ InitStore
  /\ InitText
  /\ InitSubmit
  /\ apiKey = TRUE
  /\ inputData = Silence

\* A task starts only when the microtask queue is empty (the reactions of
\* every instance share the one queue of the page).
TaskReady ==
  /\ jobs = <<>>
  /\ \A i \in DOMAIN others : others[i].jobs = <<>>

\* promise.then(reaction): a microtask if the promise is already resolved,
\* otherwise the reaction waits for the resolution.
ThenJobs(resolved, reaction) == IF resolved THEN jobs \o <<reaction>> ELSE jobs

\* mutant: a reaction registered on the pending promise is lost
ThenWait_Lost(resolved, reaction) == thenQ

\* the reactions waiting for the resolution after promise.then(reaction)
ThenWait(resolved, reaction) == IF resolved THEN thenQ ELSE thenQ \o <<reaction>>

\* ------------------------------------------------------------- callbacks
\* `onStateChange: (state) => setConnectionState(state)`
onStateChange(state) == connectionState' = state

\* `onLog: addLog`, called n times in the step
onLog(n) == logs' = logs + n

\* mutant: the delta replaces the text of the last entry
onTranscript_Replace(prev, text, sender) ==
  IF prev # <<>> /\ prev[Len(prev)].sender = sender
  THEN [prev EXCEPT ![Len(prev)].text = text]
  ELSE Append(prev, [sender |-> sender, text |-> text])

\* `onTranscript: (text, isFinal, sender) => setTranscripts(prev => ...)`:
\* the new list.
onTranscript(prev, text, sender) ==
  IF prev # <<>> /\ prev[Len(prev)].sender = sender
  THEN [prev EXCEPT ![Len(prev)].text = @ \o text]
  ELSE Append(prev, [sender |-> sender, text |-> text])

\* --------------------------------------------------------------- connect
\* connect() up to `await navigator.mediaDevices.getUserMedia`: the fields.
connect ==
  /\ TaskReady
  /\ connectPc = "idle"
  /\ connState' = "CONNECTING"
  /\ inputAudioContext' = TRUE
  /\ connectPc' = "awaitMic"
  /\ UNCHANGED <<sessionPromise, sessionResolved, thenQ, jobs, outputAudioContext,
                 outputNode, stream, capturing, transport, clock, nextStartTime,
                 sources, handlers, lookupQ, log, tracksLive, chunks, readers>>

\* connect() called on the instance in focus, with what its callbacks write.
Connect ==
  /\ connect
  /\ onStateChange(connState')
  /\ onLog(1)
  /\ UNCHANGED <<transcripts, refVars>>
  /\ UNCHANGED extVars

\* getUserMedia resolved: connect() continues up to `await this.ai.live.connect`.
MicGranted ==
  /\ TaskReady
  /\ connectPc = "awaitMic"
  /\ stream' = TRUE
  /\ outputAudioContext' = TRUE
  /\ outputNode' = TRUE
  /\ clock' = 0
  /\ sessionPromise' = "set"
  /\ transport' = "connecting"
  /\ connectPc' = "awaitLive"
  /\ UNCHANGED <<connState, sessionResolved, thenQ, jobs, inputAudioContext,
                 capturing, nextStartTime, sources, handlers, lookupQ, log>>
  /\ tracksLive' = TRUE
  /\ onLog(1)
  /\ UNCHANGED <<chunks, readers, connectionState, transcripts, refVars>>
  /\ UNCHANGED extVars

\* mutant: the catch block reports the attempt as ended, not as failed
CatchState_Disconnected == "DISCONNECTED"

\* `this.callbacks.onStateChange(ConnectionState.ERROR)` in the catch block
CatchState == "ERROR"

\* getUserMedia rejected: the catch block of connect().
MicDenied ==
  /\ TaskReady
  /\ connectPc = "awaitMic"
  /\ connState' = CatchState
  /\ connectPc' = "failed"
  /\ UNCHANGED <<sessionPromise, sessionResolved, thenQ, jobs, inputAudioContext,
                 outputAudioContext, outputNode, stream, capturing, transport,
                 clock, nextStartTime, sources, handlers, lookupQ, log>>
  /\ onStateChange(connState')
  /\ onLog(1)
  /\ UNCHANGED <<tracksLive, chunks, readers, transcripts, refVars>>
  /\ UNCHANGED extVars

\* startAudioInput(): returns early without an input context or a stream.
startAudioInput == IF inputAudioContext /\ stream THEN TRUE ELSE capturing

\* callbacks.onopen of the live session.
OnOpen ==
  /\ TaskReady
  /\ transport = "connecting"
  /\ transport' = "open"
  /\ connState' = "CONNECTED"
  /\ capturing' = startAudioInput
  /\ UNCHANGED <<connectPc, sessionPromise, sessionResolved, thenQ, jobs,
                 inputAudioContext, outputAudioContext, outputNode, stream, clock,
                 nextStartTime, sources, handlers, lookupQ, log>>
  /\ onStateChange(connState')
  /\ onLog(1)
  /\ UNCHANGED <<tracksLive, chunks, readers, transcripts, refVars>>
  /\ UNCHANGED extVars

\* ai.live.connect resolved: this.sessionResolver(liveSession) settles the
\* session promise and releases the reactions waiting on it.
LiveConnectResolved ==
  /\ TaskReady
  /\ connectPc = "awaitLive"
  /\ transport \in {"open", "closing", "closed"}
  /\ sessionResolved' = TRUE
  /\ jobs' = thenQ
  /\ thenQ' = <<>>
  /\ connectPc' = "done"
  /\ UNCHANGED <<connState, sessionPromise, inputAudioContext, outputAudioContext,
                 outputNode, stream, capturing, transport, clock, nextStartTime,
                 sources, handlers, lookupQ, log>>
  /\ UNCHANGED <<tracksLive, chunks, readers, uiVars, refVars>>
  /\ UNCHANGED extVars

\* ai.live.connect rejected before the session opened: the catch block.
LiveConnectRejected ==
  /\ TaskReady
  /\ connectPc = "awaitLive"
  /\ transport = "connecting"
  /\ transport' = "closed"
  /\ connState' = CatchState
  /\ connectPc' = "failed"
  /\ UNCHANGED <<sessionPromise, sessionResolved, thenQ, jobs, inputAudioContext,
                 outputAudioContext, outputNode, stream, capturing, clock,
                 nextStartTime, sources, handlers, lookupQ, log>>
  /\ onStateChange(connState')
  /\ onLog(1)
  /\ UNCHANGED <<tracksLive, chunks, readers, transcripts, refVars>>
  /\ UNCHANGED extVars

\* callbacks.onclose: the remote side closed, or session.close() completed.
OnClose ==
  /\ TaskReady
  /\ transport \in {"open", "closing"}
  /\ transport' = "closed"
  /\ connState' = "DISCONNECTED"
  /\ UNCHANGED <<connectPc, sessionPromise, sessionResolved, thenQ, jobs,
                 inputAudioContext, outputAudioContext, outputNode, stream,
                 capturing, clock, nextStartTime, sources, handlers, lookupQ, log>>
  /\ onStateChange(connState')
  /\ onLog(1)
  /\ UNCHANGED <<tracksLive, chunks, readers, transcripts, refVars>>
  /\ UNCHANGED extVars

\* callbacks.onerror: the transport failed; the close event follows.
OnError ==
  /\ TaskReady
  /\ transport = "open"
  /\ transport' = "closing"
  /\ connState' = "ERROR"
  /\ UNCHANGED <<connectPc, sessionPromise, sessionResolved, thenQ, jobs,
                 inputAudioContext, outputAudioContext, outputNode, stream,
                 capturing, clock, nextStartTime, sources, handlers, lookupQ, log>>
  /\ onStateChange(connState')
  /\ onLog(1)
  /\ UNCHANGED <<tracksLive, chunks, readers, transcripts, refVars>>
  /\ UNCHANGED extVars

\* --------------------------------------------------------- handleMessage
\* mutant: the cursor is set to the clock instead of the later of the two
Anchor_Clock(cursor, now) == now

\* `this.nextStartTime = Math.max(this.nextStartTime, currentTime)`
Anchor(cursor, now) == Max(cursor, now)

\* `source.start(this.nextStartTime)`: the start time given to the buffer
StartTime(cursor) == cursor

\* mutant: the cursor is not advanced past the buffer just started
Advance_Forgotten(cursor, duration) == cursor

\* `this.nextStartTime += audioBuffer.duration`
Advance(cursor, duration) == cursor + duration

\* mutant: the interruption stops no buffer
StopAll_None(live) == {}

\* `this.sources.forEach(s => s.stop())`: the buffers stop() is called on
StopAll(live) == live

\* `this.sources.clear()`: what is left of the live set
InterruptSources(live) == {}

\* mutant: the interruption leaves the cursor where it was
InterruptCursor_Kept(cursor) == cursor

\* `this.nextStartTime = 0`
InterruptCursor(cursor) == 0

\* `const query = (fc.args as any).query`
QueryArg(fc) == fc.query

\* mutant: the name test is missing
IsKbCall_Any(fc) == TRUE

\* `if (fc.name === 'search_knowledge_base')`
IsKbCall(fc) == fc.name = KB_TOOL

\* mutant: the lookups of all invocations are started at once (not awaited
\* one by one)
LoopNext_Concurrent(calls, k) ==
  IF k > 0 THEN <<>>
  ELSE LET n == Cardinality({j \in 1..Len(calls) : IsKbCall(calls[j])})
           nth(i) == CHOOSE j \in 1..Len(calls) :
                       /\ IsKbCall(calls[j])
                       /\ Cardinality({x \in 1..j : IsKbCall(calls[x])}) = i
       IN [i \in 1..n |-> nth(i)]

\* The tool loop `for (const fc of functionCalls)` resumed after position k:
\* the invocations whose lookup is started before the loop awaits again, i.e.
\* the first later invocation passing the name test, if any.
LoopNext(calls, k) ==
  LET later == {j \in (k + 1)..Len(calls) : IsKbCall(calls[j])}
  IN IF later = {} THEN <<>>
     ELSE << CHOOSE j \in later : \A i \in later : j <= i >>

\* the timers and history events of the lookups started for positions ks
LookupEntries(h, calls, ks) ==
  [i \in 1..Len(ks) |-> [h |-> h, k |-> ks[i], query |-> QueryArg(calls[ks[i]])]]

LookupStarts(h, calls, ks) ==
  [i \in 1..Len(ks) |->
     [Ev("lookupStart", h, ks[i]) EXCEPT !.query = QueryArg(calls[ks[i]])]]

\* mutant: the response does not carry the invocation's id
ToolResponse_NoId(fc, result) == [id |-> 0, name |-> fc.name, text |-> result]

\* The functionResponses object built for invocation fc and its lookup result.
ToolResponse(fc, result) == [id |-> fc.id, name |-> fc.name, text |-> result]

\* mutant: the response of a completed lookup is never handed over
SendRegistered_Never(promise) == FALSE

\* `this.sessionPromise?.then(...)`: is a reaction registered at all
SendRegistered(promise) == promise = "set"

\* the history event of one onTranscript call
TranscriptEvent(h, text, sender) ==
  [Ev("transcript", h, 0) EXCEPT !.name = sender, !.query = text]

\* handleMessage from `// 2. Handle Interruption` to the first await of the
\* tool loop, for message h, continuing from cursor c1, live set s1, history l1
\* and handler table hs1.
Dispatch(h, c1, s1, l1, hs1) ==
  LET m == hs1[h]
      l2 == IF m.interrupted
            THEN Append(l1, [Ev("interrupt", h, 0) EXCEPT !.set = StopAll(s1)])
            ELSE l1
      t1 == IF m.input # <<>>
            THEN onTranscript(transcripts, m.input, "user") ELSE transcripts
      l3 == IF m.input # <<>>
            THEN Append(l2, TranscriptEvent(h, m.input, "user")) ELSE l2
      t2 == IF m.output # <<>>
            THEN onTranscript(t1, m.output, "agent") ELSE t1
      l4 == IF m.output # <<>>
            THEN Append(l3, TranscriptEvent(h, m.output, "agent")) ELSE l3
      ks == LoopNext(m.calls, 0)
  IN /\ nextStartTime' = IF m.interrupted THEN InterruptCursor(c1) ELSE c1
     /\ sources' = IF m.interrupted THEN InterruptSources(s1) ELSE s1
     /\ transcripts' = t2
     /\ handlers' = [hs1 EXCEPT ![h].pc = IF ks = <<>> THEN "done" ELSE "lookup"]
     /\ lookupQ' = lookupQ \o LookupEntries(h, m.calls, ks)
     /\ log' = l4 \o LookupStarts(h, m.calls, ks)
     /\ onLog((IF m.interrupted THEN 1 ELSE 0)
              + (IF m.calls # <<>> THEN 1 ELSE 0) + Len(ks))

\* onmessage: handleMessage(message) is called for a message of Msgs (at most
\* max messages in all) and runs to its first await.  The remote side sends
\* server messages only in reply to the setup message, which ai.live.connect
\* sends before it resolves: none arrives while connect() still awaits it.
Deliver(Msgs, max) ==
  /\ TaskReady
  /\ transport = "open"
  /\ connectPc = "done"
  /\ Len(handlers) < max
  /\ \E m \in Msgs :
       LET h == Len(handlers) + 1
           rec == [audio |-> m.audio, interrupted |-> m.interrupted,
                   input |-> m.input, output |-> m.output,
                   calls |-> [k \in 1..Len(m.calls) |->
                                [id |-> CallId(h, k), name |-> m.calls[k].name,
                                 query |-> m.calls[k].query]],
                   pc |-> "decode"]
           l1 == Append(log, [Ev("deliver", h, 0) EXCEPT !.c = clock])
       IN IF m.audio > 0 /\ outputAudioContext /\ outputNode
          THEN /\ nextStartTime' = Anchor(nextStartTime, clock)
               /\ handlers' = Append(handlers, rec)
               /\ log' = l1
               /\ UNCHANGED <<sources, lookupQ, logs, transcripts>>
          ELSE Dispatch(h, nextStartTime, sources, l1, Append(handlers, rec))
  /\ UNCHANGED <<connectPc, connState, sessionPromise, sessionResolved, thenQ, jobs,
                 inputAudioContext, outputAudioContext, outputNode, stream,
                 capturing, transport, clock>>
  /\ UNCHANGED <<tracksLive, chunks, readers, connectionState, refVars>>
  /\ UNCHANGED extVars

\* decodeAudioData resolved for message h: handleMessage continues.  With the
\* output context released by disconnect(), createBufferSource is called on
\* null and the handler ends with a TypeError.
DecodeDone(h) ==
  /\ TaskReady
  /\ h \in 1..Len(handlers)
  /\ handlers[h].pc = "decode"
  /\ IF ~outputAudioContext
     THEN /\ handlers' = [handlers EXCEPT ![h].pc = "failed"]
          /\ log' = Append(log, Ev("error", h, 0))
          /\ UNCHANGED <<nextStartTime, sources, lookupQ, logs, transcripts>>
     ELSE Dispatch(h,
                   Advance(nextStartTime, handlers[h].audio),
                   sources \cup {h},
                   Append(log, [Ev("start", h, 0) EXCEPT
                                  !.t = StartTime(nextStartTime),
                                  !.d = handlers[h].audio, !.c = clock]),
                   handlers)
  /\ UNCHANGED <<connectPc, connState, sessionPromise, sessionResolved, thenQ, jobs,
                 inputAudioContext, outputAudioContext, outputNode, stream,
                 capturing, transport, clock>>
  /\ UNCHANGED <<tracksLive, chunks, readers, connectionState, refVars>>
  /\ UNCHANGED extVars

\* The timer of the oldest pending searchKnowledgeBase fired: the lookup
\* resolves, the handler registers the send and goes on with the loop.
LookupComplete ==
  /\ TaskReady
  /\ lookupQ # <<>>
  /\ LET e == Head(lookupQ)
         h == e.h
         fc == handlers[h].calls[e.k]
         result == searchKnowledgeBase(e.query, runtimeDatabase)
         reaction == [type |-> "send", h |-> h, k |-> e.k,
                      response |-> ToolResponse(fc, result)]
         reg == SendRegistered(sessionPromise)
         l1 == log \o << [Ev("lookupDone", h, e.k) EXCEPT !.text = result],
                         Ev(IF reg THEN "queued" ELSE "dropped", h, e.k) >>
         ks == LoopNext(handlers[h].calls, e.k)
     IN /\ jobs' = IF reg THEN ThenJobs(sessionResolved, reaction) ELSE jobs
        /\ thenQ' = IF reg THEN ThenWait(sessionResolved, reaction) ELSE thenQ
        /\ handlers' = [handlers EXCEPT
                          ![h].pc = IF ks = <<>> THEN "done" ELSE "lookup"]
        /\ lookupQ' = Tail(lookupQ) \o LookupEntries(h, handlers[h].calls, ks)
        /\ log' = l1 \o LookupStarts(h, handlers[h].calls, ks)
        /\ onLog(1 + Len(ks))
  /\ UNCHANGED <<connectPc, connState, sessionPromise, sessionResolved,
                 inputAudioContext, outputAudioContext, outputNode, stream,
                 capturing, transport, clock, nextStartTime, sources>>
  /\ UNCHANGED <<tracksLive, chunks, readers, connectionState, transcripts, refVars>>
  /\ UNCHANGED extVars

\* The next microtask: a reaction on the resolved session promise, one of
\* `session.sendToolResponse(...)`, `session.sendRealtimeInput(...)` (for the
\* captured chunk j.k) and `session.close()`.
RunJob ==
  /\ jobs # <<>>
  /\ jobs' = Tail(jobs)
  /\ LET j == Head(jobs)
     IN CASE j.type = "send" ->
               /\ log' = Append(log, [Ev("send", j.h, j.k) EXCEPT
                                        !.id = j.response.id,
                                        !.name = j.response.name,
                                        !.text = j.response.text,
                                        !.open = (transport = "open")])
               /\ UNCHANGED transport
          [] j.type = "chunk" ->
               /\ log' = Append(log, [Ev("chunk", 0, j.k) EXCEPT
                                        !.open = (transport = "open")])
               /\ UNCHANGED transport
          [] OTHER ->
               /\ transport' = IF transport = "open" THEN "closing" ELSE transport
               /\ log' = Append(log, [Ev("close", 0, 0) EXCEPT
                                        !.open = capturing, !.set = sources])
  /\ UNCHANGED <<connectPc, connState, sessionPromise, sessionResolved, thenQ,
                 inputAudioContext, outputAudioContext, outputNode, stream,
                 capturing, clock, nextStartTime, sources, handlers, lookupQ>>
  /\ UNCHANGED <<tracksLive, chunks, readers, uiVars, refVars>>
  /\ UNCHANGED extVars

\* ------------------------------------------------------------ disconnect
\* mutant: disconnect() keeps the session promise
DisconnectPromise_Kept(promise) == promise

\* `this.sessionPromise = null` inside the if of disconnect()
DisconnectPromise(promise) == "null"

\* disconnect(): the fields.
disconnect ==
  /\ TaskReady
  /\ connectPc # "idle"
  /\ LET reaction == [type |-> "close", h |-> 0, k |-> 0,
                      response |-> ToolResponse([id |-> 0, name |-> ""], "")]
     IN IF sessionPromise = "set"
        THEN /\ jobs' = ThenJobs(sessionResolved, reaction)
             /\ thenQ' = ThenWait(sessionResolved, reaction)
             /\ sessionPromise' = DisconnectPromise(sessionPromise)
             /\ log' = Append(log, Ev("teardown", 0, 0))
        ELSE UNCHANGED <<jobs, thenQ, sessionPromise, log>>
  /\ capturing' = FALSE
  /\ tracksLive' = FALSE
  /\ inputAudioContext' = FALSE
  /\ outputAudioContext' = FALSE
  /\ connState' = "DISCONNECTED"
  /\ UNCHANGED <<connectPc, sessionResolved, outputNode, stream, transport, clock,
                 nextStartTime, sources, handlers, lookupQ, chunks, readers>>

\* disconnect() called on the instance in focus, with what its callback writes.
Disconnect ==
  /\ disconnect
  /\ onStateChange(connState')
  /\ UNCHANGED <<logs, transcripts, refVars>>
  /\ UNCHANGED extVars

\* ------------------------------------------------------------ environment
\* The playback clock advances while the output context exists.
Tick ==
  /\ TaskReady
  /\ outputAudioContext
  /\ clock < MaxClock
  /\ clock' = clock + 1
  /\ UNCHANGED <<connectPc, connState, sessionPromise, sessionResolved, thenQ, jobs,
                 inputAudioContext, outputAudioContext, outputNode, stream,
                 capturing, transport, nextStartTime, sources, handlers, lookupQ,
                 log>>
  /\ UNCHANGED <<tracksLive, chunks, readers, uiVars, refVars>>
  /\ UNCHANGED extVars

\* the history event of the start of message h's buffer
StartEvent(h) == log[CHOOSE i \in 1..Len(log) : log[i].type = "start" /\ log[i].h = h]

\* A buffer started at or before "now" plays from now on.
EndTime(h) == Max(StartEvent(h).t, StartEvent(h).c) + StartEvent(h).d

\* The 'ended' listener of a buffer that played to its end: sources.delete.
Ended(h) ==
  /\ TaskReady
  /\ h \in sources
  /\ outputAudioContext
  /\ clock >= EndTime(h)
  /\ sources' = sources \ {h}
  /\ UNCHANGED <<connectPc, connState, sessionPromise, sessionResolved, thenQ, jobs,
                 inputAudioContext, outputAudioContext, outputNode, stream,
                 capturing, transport, clock, nextStartTime, handlers, lookupQ,
                 log>>
  /\ UNCHANGED <<tracksLive, chunks, readers, uiVars, refVars>>
  /\ UNCHANGED extVars

\* --------------------------------------------------------------- capture
\* Math.round(num / den): the nearest integer, a half going up
Round(num, den) == (2 * num + den) \div (2 * den)

\* the conversion of a number num / den (den > 0) stored into a Uint8Array:
\* the fraction is dropped and the integer taken modulo 256
ToUint8(num, den) ==
  (IF num >= 0 THEN num \div den ELSE 0 - ((0 - num) \div den)) % 256

\* mutant: the sample is not rectified
VisualByte_Signed(n) == ToUint8(n * 255, SampleUnit)

\* `dataArray[i] = Math.abs(inputData[i]) * 255`
VisualByte(n) == ToUint8(Abs(n) * 255, SampleUnit)

\* the Uint8Array passed to callbacks.onAudioData
VisualFrame(block) == [i \in 1..Len(block) |-> VisualByte(block[i])]

\* the value a number v is clamped to in the signed 16-bit range
Clamp16(v) == IF v > 32767 THEN 32767 ELSE IF v < 0 - 32768 THEN 0 - 32768 ELSE v

\* mutant: the scaled sample is truncated, not rounded
float32ToPCM16_Truncated(block) ==
  [i \in 1..Len(block) |-> Clamp16(
      (IF block[i] >= 0 THEN (block[i] * 32767) \div SampleUnit
       ELSE 0 - ((0 - block[i] * 32767) \div SampleUnit)))]

\* float32ToPCM16Blob(inputData): the 16-bit samples of the blob
float32ToPCM16(block) ==
  [i \in 1..Len(block) |-> Clamp16(Round(block[i] * 32767, SampleUnit))]

\* processor.onaudioprocess: the visualization frame of the block is passed
\* to onAudioData, the block is encoded and the blob is handed to a
\* FileReader (reader.readAsDataURL).
AudioProcess ==
  /\ TaskReady
  /\ capturing
  /\ chunks < MaxChunks
  /\ chunks' = chunks + 1
  /\ readers' = readers \cup {chunks + 1}
  /\ log' = log \o << [Ev("frame", 0, chunks + 1) EXCEPT
                         !.query = VisualFrame(inputData)],
                      [Ev("capture", 0, chunks + 1) EXCEPT
                         !.query = float32ToPCM16(inputData)] >>
  /\ UNCHANGED <<connectPc, connState, sessionPromise, sessionResolved, thenQ, jobs,
                 inputAudioContext, outputAudioContext, outputNode, stream,
                 capturing, transport, clock, nextStartTime, sources, handlers,
                 lookupQ, tracksLive, uiVars, refVars>>
  /\ UNCHANGED extVars

\* mutant: the chunk is handed over whatever the session promise is
ChunkRegistered_Always(promise) == TRUE

\* `if (this.sessionPromise)` in reader.onload
ChunkRegistered(promise) == promise = "set"

\* reader.onload of chunk c: the base64 text is ready.
ReaderLoad(c) ==
  /\ TaskReady
  /\ c \in readers
  /\ readers' = readers \ {c}
  /\ LET reaction == [type |-> "chunk", h |-> 0, k |-> c,
                      response |-> ToolResponse([id |-> 0, name |-> ""], "")]
         reg == ChunkRegistered(sessionPromise)
     IN /\ jobs' = IF reg THEN ThenJobs(sessionResolved, reaction) ELSE jobs
        /\ thenQ' = IF reg THEN ThenWait(sessionResolved, reaction) ELSE thenQ
  /\ log' = Append(log, [Ev("load", 0, c) EXCEPT
                           !.name = IF sessionResolved THEN "resolved" ELSE "pending"])
  /\ UNCHANGED <<connectPc, connState, sessionPromise, sessionResolved,
                 inputAudioContext, outputAudioContext, outputNode, stream,
                 capturing, transport, clock, nextStartTime, sources, handlers,
                 lookupQ, tracksLive, chunks, uiVars, refVars>>
  /\ UNCHANGED extVars

\* ------------------------------------------------------------------- App
\* the fields of the instance in focus, as one record
Cur ==
  [connectPc |-> connectPc, connState |-> connState,
   sessionPromise |-> sessionPromise, sessionResolved |-> sessionResolved,
   thenQ |-> thenQ, jobs |-> jobs, inputAudioContext |-> inputAudioContext,
   outputAudioContext |-> outputAudioContext, outputNode |-> outputNode,
   stream |-> stream, capturing |-> capturing, transport |-> transport,
   clock |-> clock, nextStartTime |-> nextStartTime, sources |-> sources,
   handlers |-> handlers, lookupQ |-> lookupQ, log |-> log,
   tracksLive |-> tracksLive, chunks |-> chunks, readers |-> readers]

\* the fields of an instance right after `new GeminiLiveService(...)`
Fresh ==
  [connectPc |-> "idle", connState |-> "DISCONNECTED",
   sessionPromise |-> "null", sessionResolved |-> FALSE,
   thenQ |-> <<>>, jobs |-> <<>>, inputAudioContext |-> FALSE,
   outputAudioContext |-> FALSE, outputNode |-> FALSE,
   stream |-> FALSE, capturing |-> FALSE, transport |-> "none",
   clock |-> 0, nextStartTime |-> 0, sources |-> {},
   handlers |-> <<>>, lookupQ |-> <<>>, log |-> <<>>,
   tracksLive |-> FALSE, chunks |-> 0, readers |-> {}]

\* the fields of a new instance when its connect() has reached
\* `await navigator.mediaDevices.getUserMedia`
Started ==
  [Fresh EXCEPT !.connState = "CONNECTING", !.inputAudioContext = TRUE,
                !.connectPc = "awaitMic"]

\* the instances created so far
Instances == DOMAIN others \cup (IF serviceRef = 0 THEN {} ELSE {focus})

\* the fields of instance i
Svc(i) == IF i = focus THEN Cur ELSE others[i]

\* The event loop turns to a callback of instance i: its fields come into
\* focus (no field of any instance changes).
Switch(i) ==
  /\ jobs = <<>>
  /\ i \in DOMAIN others
  /\ focus' = i
  /\ others' = [j \in (DOMAIN others \ {i}) \cup {focus} |->
                  IF j = focus THEN Cur ELSE others[j]]
  /\ connectPc' = others[i].connectPc
  /\ connState' = others[i].connState
  /\ sessionPromise' = others[i].sessionPromise
  /\ sessionResolved' = others[i].sessionResolved
  /\ thenQ' = others[i].thenQ
  /\ jobs' = others[i].jobs
  /\ inputAudioContext' = others[i].inputAudioContext
  /\ outputAudioContext' = others[i].outputAudioContext
  /\ outputNode' = others[i].outputNode
  /\ stream' = others[i].stream
  /\ capturing' = others[i].capturing
  /\ transport' = others[i].transport
  /\ clock' = others[i].clock
  /\ nextStartTime' = others[i].nextStartTime
  /\ sources' = others[i].sources
  /\ handlers' = others[i].handlers
  /\ lookupQ' = others[i].lookupQ
  /\ log' = others[i].log
  /\ tracksLive' = others[i].tracksLive
  /\ chunks' = others[i].chunks
  /\ readers' = others[i].readers
  /\ UNCHANGED <<serviceRef, uiVars>>
  /\ UNCHANGED extVars

\* `if (ttsSourceRef.current) { ttsSourceRef.current.stop();
\* ttsSourceRef.current = null }`.  The 'ended' event of a stopped source finds
\* another value in ttsSourceRef.current and does nothing.
StopTts ==
  /\ ttsPlaying' = ttsPlaying \ {ttsSourceRef}
  /\ ttsSourceRef' = 0

\* handleStart: the text answer playing is stopped, then
\* `serviceRef.current.disconnect()` on the current instance, if
\* any, then `new GeminiLiveService(...)` and its connect() up to the first
\* await.
handleStart ==
  /\ IF serviceRef = 0
     THEN /\ connect
          /\ serviceRef' = focus
          /\ onStateChange(connState')
          /\ onLog(1)
          /\ UNCHANGED <<focus, others, transcripts>>
     ELSE /\ focus = serviceRef
          /\ Cardinality(Instances) < MaxStarts
          /\ disconnect
          /\ LET new == Cardinality(Instances) + 1
             IN /\ others' = others @@ (new :> Started)
                /\ serviceRef' = new
          /\ onStateChange(Started.connState)
          /\ onLog(1)
          /\ UNCHANGED <<focus, transcripts>>
  /\ StopTts
  /\ UNCHANGED <<isProcessingText, spc, submits, placeholder, ttsCount>>
  /\ UNCHANGED <<capVars, kbVars, textVars>>

\* handleStop: the button calls it while connectionState is CONNECTED.
handleStop ==
  /\ connectionState = "CONNECTED"
  /\ serviceRef # 0
  /\ focus = serviceRef
  /\ disconnect
  /\ onStateChange("DISCONNECTED")
  /\ StopTts
  /\ UNCHANGED <<logs, transcripts, refVars>>
  /\ UNCHANGED <<isProcessingText, spc, submits, placeholder, ttsCount>>
  /\ UNCHANGED <<capVars, kbVars, textVars>>

\* ------------------------------------------------------- knowledge store
\* what the admin panel passes to addDatabaseEntry
NewKeywords == { { <<"WIFI">> }, { <<>>, <<"refund">> } }

NewContents == { "", "KB_NEW" }

\* `keywords.map(k => k.toLowerCase().trim())`
NormalizeKeywords(keywords) == {toLowerCase(kw) : kw \in keywords}

\* `Math.random().toString(36).substr(2, 9)`: the id of the n-th new entry
NewId(n) == "new-" \o ToString(n)

\* addDatabaseEntry(category, keywords, content)
addDatabaseEntry(keywords, content) ==
  /\ TaskReady
  /\ added < MaxAdds
  /\ added' = added + 1
  /\ runtimeDatabase' =
       Append(runtimeDatabase,
              [id |-> NewId(added + 1), keywords |-> NormalizeKeywords(keywords),
               content |-> content])
  /\ UNCHANGED <<svcVars, uiVars, refVars, capVars, textVars, subVars,
                 searches, found>>

\* `runtimeDatabase.filter(e => e.id !== id)`
RECURSIVE filterOut(_, _)
filterOut(db, id) ==
  IF db = <<>> THEN <<>>
  ELSE IF Head(db).id # id THEN <<Head(db)>> \o filterOut(Tail(db), id)
       ELSE filterOut(Tail(db), id)

\* deleteDatabaseEntry(id)
deleteDatabaseEntry(id) ==
  /\ TaskReady
  /\ \E i \in 1..Len(runtimeDatabase) : runtimeDatabase[i].id = id
  /\ runtimeDatabase' = filterOut(runtimeDatabase, id)
  /\ UNCHANGED <<svcVars, uiVars, refVars, capVars, textVars, subVars,
                 added, searches, found>>

\* resetDatabase()
resetDatabase ==
  /\ TaskReady
  /\ runtimeDatabase # INITIAL_DATA
  /\ runtimeDatabase' = INITIAL_DATA
  /\ UNCHANGED <<svcVars, uiVars, refVars, capVars, textVars, subVars,
                 added, searches, found>>

\* what a caller outside a session asks for
Queries == {Q_RETURN, Q_WIFI, Q_NONE, Q_BOTH, Q_POLICY, Q_EMPTY}

\* searchKnowledgeBase(query) is called: it runs up to the await of its timer.
SearchCall(query) ==
  /\ TaskReady
  /\ Len(searches) < MaxSearches
  /\ searches' = Append(searches, query)
  /\ UNCHANGED <<svcVars, uiVars, refVars, capVars, textVars, subVars,
                 runtimeDatabase, added, found>>

\* the contents of the entries of db that have a keyword occurring in the
\* lower-cased query, in the order of db
RECURSIVE MatchedContents(_, _)
MatchedContents(db, query) ==
  IF db = <<>> THEN <<>>
  ELSE (IF \E kw \in Head(db).keywords : includes(toLowerCase(query), kw)
        THEN <<Head(db).content>> ELSE <<>>)
       \o MatchedContents(Tail(db), query)

\* The timer of the oldest pending search fired: the search reads the store
\* as it is now and resolves.
SearchTimer ==
  /\ TaskReady
  /\ searches # <<>>
  /\ searches' = Tail(searches)
  /\ found' = [query |-> Head(searches),
               text |-> searchKnowledgeBase(Head(searches), runtimeDatabase),
               matched |-> MatchedContents(runtimeDatabase, Head(searches))]
  /\ UNCHANGED <<svcVars, uiVars, refVars, capVars, textVars, subVars,
                 runtimeDatabase, added>>

\* ------------------------------------------------------------ text agent
\* the fixed sentence returned when the model produced no text
FALLBACK_TEXT == "I processed your request but couldn't generate a text response."

\* One history event of processTextQuery.  k: the position in funcCalls the
\* loop is at (0 during the first turn).
TEv(type, k) ==
  [type |-> type, k |-> k, calls |-> <<>>, name |-> "", query |-> <<>>, text |-> ""]

\* GenerateContentResponse chunks of a stream: chunk.text ("" when absent)
\* and chunk.functionCalls
StreamChunks ==
  { [text |-> "a", calls |-> << Call(KB_TOOL, Q_RETURN), Call(OTHER_TOOL, Q_NONE) >>],
    [text |-> "b", calls |-> << Call(KB_TOOL, Q_WIFI) >>],
    [text |-> "c", calls |-> <<>>],
    [text |-> "", calls |-> <<>>] }

\* mutant: the new text replaces what was accumulated
Accumulate_Overwrite(acc, t) == t

\* `textAcc += t`
Accumulate(acc, t) == acc \o t

\* mutant: the function calls of an answer stream join the loop
AnswerCalls_Executed(calls, fc) == calls \o fc

\* `textAcc += outcome.textAcc`: of the outcome of an answer stream only the
\* text is used; funcCalls stays as the first turn left it
AnswerCalls(calls, fc) == calls

\* `for (const fc of funcCalls) if (fc.name === 'search_knowledge_base')`
\* resumed after position k: the next position whose lookup is awaited, 0 if
\* the loop ends
TextLoopNext(calls, k) ==
  LET later == {j \in (k + 1)..Len(calls) : calls[j].name = KB_TOOL}
  IN IF later = {} THEN 0 ELSE CHOOSE j \in later : \A i \in later : j <= i

\* `textAcc || "I processed your request but ..."`
AnswerText(acc) == IF acc = "" THEN FALLBACK_TEXT ELSE acc

\* The loop over funcCalls goes on after position k with the calls and the
\* text given: it awaits the next lookup, or leaves the loop and calls the
\* speech model with the answer text.
TextLoop(calls, k, acc, l1, n) ==
  LET next == TextLoopNext(calls, k)
  IN /\ fcPos' = next
     /\ IF next # 0
        THEN /\ tpc' = "lookup"
             /\ tlog' = Append(l1, [TEv("lookup", next) EXCEPT
                                      !.query = QueryArg(calls[next])])
             /\ onLog(n + 1)
        ELSE /\ tpc' = "tts"
             /\ tlog' = Append(l1, [TEv("tts", 0) EXCEPT !.text = AnswerText(acc)])
             /\ onLog(n + 1)

\* the closure handleTextSubmit passes as onToken: the token is added to the
\* last entry if that is an agent entry (a text is the sequence of its pieces)
onToken(prev, token) ==
  IF Len(prev) > 0 /\ prev[Len(prev)].sender = "agent"
  THEN [prev EXCEPT ![Len(prev)].text = @ \o <<token>>]
  ELSE prev

\* handleTextSubmit, the catch block: the query or the decode of its audio
\* failed while handleTextSubmit awaited it
Caught ==
  IF spc \in {"query", "decode"}
  THEN /\ isProcessingText' = FALSE
       /\ spc' = "idle"
       /\ onLog(1)
  ELSE UNCHANGED <<isProcessingText, spc, logs>>

\* handleTextSubmit after `await processTextQuery`: it returns if the
\* connection state is not DISCONNECTED, else it awaits the decode of the audio
Returned ==
  /\ spc' = IF spc # "query" THEN spc
            ELSE IF connectionState # "DISCONNECTED" THEN "idle" ELSE "decode"
  /\ UNCHANGED <<isProcessingText, logs>>

\* a call of processTextQuery up to `await chat.sendMessageStream`: its
\* locals and what it has done so far
processTextQueryCall ==
  /\ tpc' = IF apiKey THEN "stream1" ELSE "thrown"
  /\ tlog' = IF apiKey THEN << TEv("message", 0) >> ELSE <<>>
  /\ textAcc' = ""
  /\ outcome' = ""
  /\ tokens' = <<>>
  /\ funcCalls' = <<>>
  /\ fcPos' = 0
  /\ streamed' = 0
  /\ ret' = <<>>
  /\ UNCHANGED apiKey

\* processTextQuery(query, onLog, onToken) called on its own.
processTextQuery ==
  /\ TaskReady
  /\ tpc = "idle"
  /\ processTextQueryCall
  /\ onLog(IF apiKey THEN 2 ELSE 0)
  /\ UNCHANGED <<svcVars, connectionState, transcripts, refVars, capVars, kbVars,
                 subVars>>

\* consumeStream: the next chunk of the stream being consumed.
StreamChunk(chunk) ==
  /\ TaskReady
  /\ tpc \in {"stream1", "stream2"}
  /\ streamed < MaxStreamed
  /\ streamed' = streamed + 1
  /\ tokens' = IF chunk.text # "" THEN Append(tokens, chunk.text) ELSE tokens
  /\ IF tpc = "stream1"
     THEN /\ textAcc' = IF chunk.text # "" THEN Accumulate(textAcc, chunk.text)
                        ELSE textAcc
          /\ funcCalls' = funcCalls \o chunk.calls
          /\ UNCHANGED outcome
     ELSE /\ outcome' = IF chunk.text # "" THEN Accumulate(outcome, chunk.text)
                        ELSE outcome
          /\ funcCalls' = AnswerCalls(funcCalls, chunk.calls)
          /\ UNCHANGED textAcc
  /\ tlog' = tlog
              \o (IF chunk.text # ""
                  THEN << [TEv("token", fcPos) EXCEPT !.text = chunk.text] >>
                  ELSE <<>>)
              \o (IF chunk.calls # <<>>
                  THEN << [TEv("calls", fcPos) EXCEPT !.calls = chunk.calls] >>
                  ELSE <<>>)
  /\ transcripts' = IF chunk.text # "" THEN onToken(transcripts, chunk.text)
                    ELSE transcripts
  /\ UNCHANGED <<apiKey, tpc, fcPos, ret>>
  /\ UNCHANGED <<svcVars, connectionState, logs, refVars, capVars, kbVars, subVars>>

\* The stream being consumed ends: after the first turn the loop over
\* funcCalls begins; after an answer its text is added and the loop goes on.
StreamEnd ==
  /\ TaskReady
  /\ tpc \in {"stream1", "stream2"}
  /\ LET acc == IF tpc = "stream1" THEN textAcc ELSE Accumulate(textAcc, outcome)
         l1 == Append(tlog, TEv("streamEnd", fcPos))
     IN /\ textAcc' = acc
        /\ TextLoop(funcCalls, fcPos, acc, l1, 0)
  /\ outcome' = ""
  /\ UNCHANGED <<apiKey, tokens, funcCalls, streamed, ret>>
  /\ UNCHANGED <<svcVars, connectionState, transcripts, refVars, capVars, kbVars,
                 subVars>>

\* The timer of the awaited searchKnowledgeBase fired: the lookup resolves and
\* the function response is sent to the model (chat.sendMessageStream).
TextLookupDone ==
  /\ TaskReady
  /\ tpc = "lookup"
  /\ LET fc == funcCalls[fcPos]
         result == searchKnowledgeBase(QueryArg(fc), runtimeDatabase)
     IN tlog' = Append(tlog, [TEv("response", fcPos) EXCEPT
                                !.name = fc.name, !.text = result])
  /\ tpc' = "stream2"
  /\ onLog(1)
  /\ UNCHANGED <<apiKey, textAcc, outcome, tokens, funcCalls, fcPos, streamed, ret>>
  /\ UNCHANGED <<svcVars, connectionState, transcripts, refVars, capVars, kbVars,
                 subVars>>

\* A call of the model rejects, or a stream throws while it is consumed.
ModelFails ==
  /\ TaskReady
  /\ tpc \in {"stream1", "stream2", "tts"}
  /\ tpc' = "thrown"
  /\ Caught
  /\ UNCHANGED <<apiKey, textAcc, outcome, tokens, funcCalls, fcPos, streamed, tlog,
                 ret>>
  /\ UNCHANGED <<svcVars, connectionState, transcripts, refVars, capVars, kbVars>>
  /\ UNCHANGED <<submits, placeholder, ttsSourceRef, ttsCount, ttsPlaying>>

\* ai.models.generateContent resolved, with inline audio data or without.
SpeechDone(audioBase64) ==
  /\ TaskReady
  /\ tpc = "tts"
  /\ tlog' = Append(tlog, [TEv("speech", 0) EXCEPT !.text = audioBase64])
  /\ IF audioBase64 = ""
     THEN /\ tpc' = "thrown"
          /\ Caught
          /\ UNCHANGED ret
     ELSE /\ tpc' = "returned"
          /\ Returned
          /\ ret' = [text |-> AnswerText(textAcc), audioBase64 |-> audioBase64]
  /\ UNCHANGED <<apiKey, textAcc, outcome, tokens, funcCalls, fcPos, streamed>>
  /\ UNCHANGED <<svcVars, connectionState, transcripts, refVars, capVars, kbVars>>
  /\ UNCHANGED <<submits, placeholder, ttsSourceRef, ttsCount, ttsPlaying>>

\* ------------------------------------------------------------- text mode
\* the text typed into the input
USER_QUERY == <<"q">>

\* `newArr[lastIdx].text = text`, if the last entry is an agent entry
SetLastText(prev, text) ==
  IF Len(prev) > 0 /\ prev[Len(prev)].sender = "agent"
  THEN [prev EXCEPT ![Len(prev)].text = <<text>>]
  ELSE prev

\* handleTextSubmit up to `await processTextQuery(...)`; the form is disabled
\* while isProcessingText.  Without an API key processTextQuery rejects at
\* once and the catch block runs before any other task.
handleTextSubmit ==
  /\ TaskReady
  /\ ~isProcessingText
  /\ submits < MaxSubmits
  /\ submits' = submits + 1
  /\ IF connectionState = "CONNECTED"
     THEN /\ serviceRef # 0
          /\ focus = serviceRef
          /\ disconnect
     ELSE UNCHANGED svcVars
  /\ onStateChange(IF connectionState = "CONNECTED" THEN "DISCONNECTED"
                   ELSE connectionState)
  /\ StopTts
  /\ transcripts' = Append(transcripts, [sender |-> "user", text |-> USER_QUERY])
  /\ placeholder' = placeholder + 1
  /\ processTextQueryCall
  /\ isProcessingText' = apiKey
  /\ spc' = IF apiKey THEN "query" ELSE "idle"
  /\ onLog(IF apiKey THEN 2 ELSE 1)
  /\ UNCHANGED <<ttsCount, refVars, capVars, kbVars>>

\* The 10 ms timer of handleTextSubmit: the empty agent entry is added.
PlaceholderTimer ==
  /\ TaskReady
  /\ placeholder > 0
  /\ placeholder' = placeholder - 1
  /\ transcripts' = Append(transcripts, [sender |-> "agent", text |-> <<>>])
  /\ UNCHANGED <<isProcessingText, spc, submits, ttsSourceRef, ttsCount, ttsPlaying>>
  /\ UNCHANGED <<svcVars, connectionState, logs, refVars, capVars, kbVars, textVars>>

\* decodeAudioData resolved: handleTextSubmit stops the source in
\* ttsSourceRef, starts a new one and writes the returned text into the last
\* entry.
TtsDecodeDone ==
  /\ TaskReady
  /\ spc = "decode"
  /\ spc' = "idle"
  /\ ttsCount' = ttsCount + 1
  /\ ttsSourceRef' = ttsCount'
  /\ ttsPlaying' = (ttsPlaying \ {ttsSourceRef}) \cup {ttsCount'}
  /\ transcripts' = SetLastText(transcripts, ret.text)
  /\ UNCHANGED <<isProcessingText, submits, placeholder>>
  /\ UNCHANGED <<svcVars, connectionState, logs, refVars, capVars, kbVars, textVars>>

\* decodeAudioData rejected: the catch block.
TtsDecodeFailed ==
  /\ TaskReady
  /\ spc = "decode"
  /\ Caught
  /\ UNCHANGED <<submits, placeholder, ttsSourceRef, ttsCount, ttsPlaying>>
  /\ UNCHANGED <<svcVars, connectionState, transcripts, refVars, capVars, kbVars,
                 textVars>>

\* source.onended of a source that played to its end.
TtsEnded(s) ==
  /\ TaskReady
  /\ s \in ttsPlaying
  /\ ttsPlaying' = ttsPlaying \ {s}
  /\ isProcessingText' = IF ttsSourceRef = s THEN FALSE ELSE isProcessingText
  /\ UNCHANGED <<spc, submits, placeholder, ttsSourceRef, ttsCount>>
  /\ UNCHANGED <<svcVars, uiVars, refVars, capVars, kbVars, textVars>>

\* -------------------------------------------------------- specifications
Lifecycle ==
  \/ Connect
  \/ MicGranted
  \/ MicDenied
  \/ OnOpen
  \/ LiveConnectResolved
  \/ LiveConnectRejected
  \/ OnClose
  \/ OnError
  \/ Disconnect
  \/ RunJob

\* Playback scheduler: audio and interruption messages.
NextSched ==
  \/ Lifecycle
  \/ Deliver(AudioMsgs, MaxMsgs)
  \/ \E h \in 1..MaxMsgs : DecodeDone(h)
  \/ \E h \in 1..MaxMsgs : Ended(h)
  \/ Tick

SpecSched == Init /\ [][NextSched]_vars

\* Tool-call broker: toolCall messages.
NextTool ==
  \/ Lifecycle
  \/ Deliver(ToolMsgs, MaxMsgs)
  \/ LookupComplete

SpecTool == Init /\ [][NextTool]_vars

NextToolFair ==
  \/ Lifecycle
  \/ Deliver(ToolMsgs, MaxFairMsgs)
  \/ LookupComplete

\* Timers fire, promise reactions run and the pending connect settles.
SpecToolFair ==
  /\ Init /\ [][NextToolFair]_vars
  /\ WF_vars(LookupComplete)
  /\ WF_vars(RunJob)
  /\ WF_vars(LiveConnectResolved)

\* Session lifecycle and microphone capture of one instance.
NextLife ==
  \/ Lifecycle
  \/ AudioProcess
  \/ \E c \in 1..MaxChunks : ReaderLoad(c)

SpecLife == Init /\ [][NextLife]_vars

\* The same with the pending steps going on: the microphone prompt is
\* answered, the transport connect settles, promise reactions run and a
\* session asked to close reports its close.  The remote side need not close.
SpecLifeFair ==
  /\ Init /\ [][NextLife]_vars
  /\ WF_vars(MicGranted)
  /\ WF_vars(OnOpen)
  /\ WF_vars(LiveConnectResolved)
  /\ WF_vars(RunJob)
  /\ WF_vars(OnClose /\ transport = "closing")

\* Message dispatch: audio, interruption, transcripts and tool calls.
NextDispatch ==
  \/ Lifecycle
  \/ Deliver(MixedMsgs, MaxMsgs)
  \/ \E h \in 1..MaxMsgs : DecodeDone(h)
  \/ LookupComplete

SpecDispatch == Init /\ [][NextDispatch]_vars

\* audio messages without the interrupted flag
PlainAudio == {m \in AudioMsgs : ~m.interrupted}

\* The App handlers and the instances they create.
NextApp ==
  \/ handleStart
  \/ handleStop
  \/ \E i \in 1..MaxStarts : Switch(i)
  \/ MicGranted
  \/ MicDenied
  \/ OnOpen
  \/ LiveConnectResolved
  \/ LiveConnectRejected
  \/ OnClose
  \/ OnError
  \/ RunJob
  \/ Deliver(PlainAudio, MaxAppMsgs)
  \/ \E h \in 1..MaxAppMsgs : DecodeDone(h)

SpecApp == Init /\ [][NextApp]_vars

\* The knowledge store under the admin methods, and searches on it.
NextStore ==
  \/ \E kws \in NewKeywords : \E c \in NewContents : addDatabaseEntry(kws, c)
  \/ \E id \in {"pol-1", "ord-3", "tech-2"} \cup {NewId(n) : n \in 1..MaxAdds} :
       deleteDatabaseEntry(id)
  \/ resetDatabase
  \/ \E q \in Queries : SearchCall(q)
  \/ SearchTimer

SpecStore == Init /\ [][NextStore]_vars

\* The microphone delivers some block of samples.
InitCodec ==
  /\ InitSession
  /\ InitStore
  /\ InitText
  /\ InitSubmit
  /\ apiKey = TRUE
  /\ inputData \in Blocks

\* Capture on a session that opens: each block is shown, encoded and sent.
NextCodec ==
  \/ Connect
  \/ MicGranted
  \/ OnOpen
  \/ LiveConnectResolved
  \/ AudioProcess
  \/ \E c \in 1..MaxChunks : ReaderLoad(c)
  \/ RunJob

SpecCodec == InitCodec /\ [][NextCodec]_vars

\* A text query with or without the API key.
InitQuery ==
  /\ InitSession
  /\ InitStore
  /\ InitText
  /\ InitSubmit
  /\ apiKey \in BOOLEAN
  /\ inputData = Silence

\* The text agent: one call of processTextQuery.
NextText ==
  \/ processTextQuery
  \/ \E chunk \in StreamChunks : StreamChunk(chunk)
  \/ StreamEnd
  \/ TextLookupDone
  \/ ModelFails
  \/ \E audio \in {"", "UklGRg"} : SpeechDone(audio)

SpecText == InitQuery /\ [][NextText]_vars

\* transcription messages of a call
VoiceMsgs == {m \in MixedMsgs : m.audio = 0 /\ (m.input # <<>> \/ m.output # <<>>)}

\* chunks carrying a token and no function call
TokenChunks == {c \in StreamChunks : c.calls = <<>> /\ c.text # ""}

\* Text mode of the App next to its calls.
NextSubmit ==
  \/ handleStart
  \/ handleStop
  \/ \E i \in 1..MaxStarts : Switch(i)
  \/ MicGranted
  \/ OnOpen
  \/ LiveConnectResolved
  \/ RunJob
  \/ OnClose
  \/ Deliver(VoiceMsgs, MaxAppMsgs)
  \/ handleTextSubmit
  \/ PlaceholderTimer
  \/ \E chunk \in TokenChunks : StreamChunk(chunk)
  \/ StreamEnd
  \/ ModelFails
  \/ \E audio \in {"", "UklGRg"} : SpeechDone(audio)
  \/ TtsDecodeDone
  \/ TtsDecodeFailed
  \/ \E s \in 1..MaxSubmits : TtsEnded(s)

SpecSubmit == Init /\ [][NextSubmit]_vars

\* Text mode with a call started or stopped meanwhile.
NextSubmitFair ==
  \/ handleStart
  \/ handleStop
  \/ MicGranted
  \/ OnOpen
  \/ LiveConnectResolved
  \/ RunJob
  \/ handleTextSubmit
  \/ PlaceholderTimer
  \/ \E chunk \in TokenChunks : StreamChunk(chunk)
  \/ StreamEnd
  \/ ModelFails
  \/ \E audio \in {"", "UklGRg"} : SpeechDone(audio)
  \/ TtsDecodeDone
  \/ TtsDecodeFailed
  \/ \E s \in 1..MaxSubmits : TtsEnded(s)

\* Streams end, the speech request settles, the decode settles, a playing
\* source reaches its end, timers fire and promise reactions run.
SpecSubmitFair ==
  /\ Init /\ [][NextSubmitFair]_vars
  /\ WF_vars(StreamEnd)
  /\ WF_vars(\E audio \in {"", "UklGRg"} : SpeechDone(audio))
  /\ WF_vars(TtsDecodeDone)
  /\ WF_vars(\E s \in 1..MaxSubmits : TtsEnded(s))
  /\ WF_vars(PlaceholderTimer)
  /\ WF_vars(RunJob)

\* ------------------------------------------------------ history operators
Events(type) == {i \in 1..Len(log) : log[i].type = type}

NoneBetween(type, i, j) == \A x \in Events(type) : ~(i < x /\ x < j)

\* the delivery event of message h
Delivery(h) == CHOOSE i \in Events("deliver") : log[i].h = h

\* ------------------------------------------------- playback scheduler
\* C1 (no overlap): of two buffers started with no interruption processed
\* between the two starts, the later one is given a start time that is not
\* earlier than the start time of the earlier one plus its duration.
C1_NoOverlap ==
  \A i \in Events("start") : \A j \in Events("start") :
    (i < j /\ NoneBetween("interrupt", i, j)) => log[j].t >= log[i].t + log[i].d

\* two buffers were started back to back, the second while the first cursor
\* value was still ahead of the clock
C1_Witness ==
  \E i \in Events("start") : \E j \in Events("start") :
    /\ i < j
    /\ NoneBetween("interrupt", i, j)
    /\ log[j].t = log[i].t + log[i].d
    /\ log[j].t > log[j].c

\* C2 (arrival order): if message M1 is delivered before message M2 and no
\* interruption is processed between the delivery of M1 and the start of
\* both buffers, M1's buffer is started with a start time no later than M2's.
C2_ArrivalOrder ==
  \A i \in Events("start") : \A j \in Events("start") :
    (/\ log[i].h < log[j].h
     /\ NoneBetween("interrupt", Delivery(log[i].h), Max(i, j) + 1))
    => log[i].t <= log[j].t

\* C3 (interrupt resets the timeline): the first buffer started after an
\* interruption has been processed is given a start time at or after the
\* playback clock's value when its enqueue began (the delivery of its message).
C3_InterruptReanchors ==
  \A i \in Events("interrupt") : \A j \in Events("start") :
    (i < j /\ NoneBetween("start", i, j))
    => log[j].t >= log[Delivery(log[j].h)].c

\* C4 (interrupt): the step that processes an interruption signal calls stop
\* on every buffer that is in the live set at that moment (the buffer the
\* same message has just started included), leaves the live set empty and
\* leaves nextStartTime at 0.
InterruptStep ==
  \E i \in (Len(log) + 1)..Len(log') : log'[i].type = "interrupt"

StartedInStep ==
  {log'[i].h : i \in {x \in (Len(log) + 1)..Len(log') : log'[x].type = "start"}}

C4_Interrupt ==
  [][InterruptStep =>
       /\ sources' = {}
       /\ nextStartTime' = 0
       /\ \A i \in (Len(log) + 1)..Len(log') :
            log'[i].type = "interrupt"
            => (sources \cup StartedInStep) \subseteq log'[i].set]_vars

\* an interruption was just processed while a buffer was live and the cursor
\* had been ahead
C4_Witness ==
  /\ log # <<>>
  /\ log[Len(log)].type = "interrupt"
  /\ log[Len(log)].set # {}
  /\ sources = {}
  /\ nextStartTime = 0
  /\ \E i \in Events("start") : log[i].t + log[i].d > 0

\* ------------------------------------------------------ tool-call broker
\* history positions of the events of one invocation
Idx(type, h, k) == {i \in Events(type) : log[i].h = h /\ log[i].k = k}

\* the invocations of message h that name the knowledge tool
KbCalls(h) == {k \in 1..Len(handlers[h].calls) : handlers[h].calls[k].name = KB_TOOL}

\* the invocation handled just before invocation k in the same event, 0 if none
PrevKb(h, k) ==
  LET before == {j \in KbCalls(h) : j < k}
  IN IF before = {} THEN 0 ELSE CHOOSE j \in before : \A i \in before : i <= j

LookupTypes == {"lookupStart", "lookupDone"}

\* C5 (tool ordering): the responses of two successive invocations of one
\* inbound event are sent in that order, and between the two sends no lookup
\* of any other invocation is started or completed.
C5_ToolOrdering ==
  \A h \in 1..Len(handlers) : \A k2 \in KbCalls(h) :
    LET k1 == PrevKb(h, k2)
    IN k1 # 0 =>
         \A p \in Idx("send", h, k2) :
           \E q \in Idx("send", h, k1) :
             /\ q < p
             /\ \A x \in (q + 1)..(p - 1) :
                  log[x].type \in LookupTypes
                  => (log[x].h = h /\ log[x].k \in {k1, k2})

\* C6 as claimed: the lookup of an invocation is started only after the
\* response of the invocation before it has been sent or dropped.
C6_StartAfterSend ==
  \A h \in 1..Len(handlers) : \A k2 \in KbCalls(h) :
    LET k1 == PrevKb(h, k2)
    IN k1 # 0 =>
         \A p \in Idx("lookupStart", h, k2) :
           \E q \in Idx("send", h, k1) \cup Idx("dropped", h, k1) : q < p

\* C6 (amended): the lookup of an invocation is started only after the
\* lookup of the invocation before it has completed and its response has
\* been handed to the session promise (to be sent by a promise reaction) or
\* dropped; no two lookups of one event are pending together.
C6_Sequential ==
  /\ \A h \in 1..Len(handlers) : \A k2 \in KbCalls(h) :
       LET k1 == PrevKb(h, k2)
       IN k1 # 0 =>
            \A p \in Idx("lookupStart", h, k2) :
              \E q \in Idx("lookupDone", h, k1) :
                \E r \in Idx("queued", h, k1) \cup Idx("dropped", h, k1) :
                  q < r /\ r < p
  /\ \A i \in 1..Len(lookupQ) : \A j \in 1..Len(lookupQ) :
       lookupQ[i].h = lookupQ[j].h => i = j

\* the second lookup of an event has been started while the response of the
\* first is handed over but not sent yet
C6_Witness ==
  \E h \in 1..Len(handlers) : \E k2 \in KbCalls(h) :
    /\ PrevKb(h, k2) # 0
    /\ Idx("lookupStart", h, k2) # {}
    /\ Idx("queued", h, PrevKb(h, k2)) # {}
    /\ Idx("send", h, PrevKb(h, k2)) = {}

\* disconnect() tore the session down while the lookup of (h, k) was pending
TornDownWhilePending(h, k) ==
  \E q \in Idx("lookupStart", h, k) : \E td \in Events("teardown") :
    /\ q < td
    /\ \A p \in Idx("lookupDone", h, k) : td < p

\* C7 (dead-session drop): when disconnect() is called while the lookup of an
\* invocation is pending, the completion of that lookup hands no response to
\* the session (none is queued, none is sent) and the handler raises no error.
C7_DeadSessionDrop ==
  \A h \in 1..Len(handlers) : \A k \in KbCalls(h) :
    TornDownWhilePending(h, k) =>
      /\ Idx("queued", h, k) = {}
      /\ Idx("send", h, k) = {}
      /\ handlers[h].pc # "failed"
      /\ Idx("error", h, 0) = {}

\* a lookup completed after the teardown and its response was dropped
C7_Witness ==
  \E h \in 1..Len(handlers) : \E k \in KbCalls(h) :
    /\ TornDownWhilePending(h, k)
    /\ Idx("lookupDone", h, k) # {}
    /\ Idx("dropped", h, k) # {}
    /\ handlers[h].pc = "done"
    /\ jobs = <<>>

\* C8 (one response per accepted invocation)
Accepted(h, k) ==
  /\ h <= Len(handlers)
  /\ k <= Len(handlers[h].calls)
  /\ handlers[h].calls[k].name = KB_TOOL

SentCount(h, k) == Cardinality(Idx("send", h, k))

\* the session was torn down before the lookup of (h, k) completed
TornDownBeforeDone(h, k) ==
  \E td \in Events("teardown") : \A p \in Idx("lookupDone", h, k) : td < p

Invocations == (1..Max(MaxMsgs, MaxFairMsgs)) \X (1..MaxCalls)

\* every accepted invocation has its one response, or its session was torn
\* down before its lookup completed
AllResolved ==
  \A hk \in Invocations :
    Accepted(hk[1], hk[2]) =>
      (SentCount(hk[1], hk[2]) = 1 \/ TornDownBeforeDone(hk[1], hk[2]))

\* C8: no invocation ever has two responses, an invocation whose session was
\* torn down before its lookup completed has none, only accepted invocations
\* have one, and every accepted invocation eventually has exactly one
\* response sent unless the session was torn down before its lookup completed
\* (being resolved is stable, so this is: again and again all are resolved).
C8_ExactlyOneResponse ==
  /\ [](\A hk \in Invocations :
          /\ SentCount(hk[1], hk[2]) <= 1
          /\ SentCount(hk[1], hk[2]) = 1 => Accepted(hk[1], hk[2])
          /\ (Accepted(hk[1], hk[2]) /\ TornDownBeforeDone(hk[1], hk[2]))
             => SentCount(hk[1], hk[2]) = 0)
  /\ []<>AllResolved

\* one invocation of an event got its response, then the session was torn
\* down and the next invocation of the event got none
C8_Witness ==
  \E h \in 1..Len(handlers) : \E k2 \in KbCalls(h) :
    /\ PrevKb(h, k2) # 0
    /\ SentCount(h, PrevKb(h, k2)) = 1
    /\ TornDownBeforeDone(h, k2)
    /\ Idx("dropped", h, k2) # {}

\* C9 (response contents): every lookup is started with the query of its own
\* invocation, and every tool response sent carries the id and the name of
\* its invocation and the text the lookup returns for that invocation's query.
C9_ResponseMatches ==
  /\ \A i \in Events("lookupStart") :
       log[i].query = handlers[log[i].h].calls[log[i].k].query
  /\ \A i \in Events("send") :
       LET fc == handlers[log[i].h].calls[log[i].k]
       IN /\ log[i].id = CallId(log[i].h, log[i].k)
          /\ log[i].name = KB_TOOL
          /\ log[i].text = searchKnowledgeBase(fc.query, INITIAL_DATA)

\* both responses of one event were sent, with different texts
C9_Witness ==
  \E h \in 1..Len(handlers) : \E k2 \in KbCalls(h) :
    /\ PrevKb(h, k2) # 0
    /\ \E i \in Idx("send", h, PrevKb(h, k2)) : \E j \in Idx("send", h, k2) :
         /\ log[i].text # log[j].text
         /\ log[i].id # log[j].id

BrokerTypes == {"lookupStart", "lookupDone", "queued", "dropped", "send"}

\* C10 (unrecognized tool name): no lookup is started and no response is
\* handed over or sent for an invocation whose name is not
\* search_knowledge_base, and when the handler has finished, every other
\* invocation of the event has had its lookup started exactly once, in the
\* order of the event.
C10_UnknownToolSkipped ==
  /\ \A i \in 1..Len(log) :
       log[i].type \in BrokerTypes
       => handlers[log[i].h].calls[log[i].k].name = KB_TOOL
  /\ \A h \in 1..Len(handlers) :
       handlers[h].pc = "done" =>
         /\ \A k \in KbCalls(h) : Cardinality(Idx("lookupStart", h, k)) = 1
         /\ \A k1 \in KbCalls(h) : \A k2 \in KbCalls(h) :
              k1 < k2 =>
                \A p \in Idx("lookupStart", h, k1) :
                  \A q \in Idx("lookupStart", h, k2) : p < q

\* a finished handler whose event named an unknown tool before a known one
C10_Witness ==
  \E h \in 1..Len(handlers) :
    /\ handlers[h].pc = "done"
    /\ \E k1 \in 1..Len(handlers[h].calls) : \E k2 \in KbCalls(h) :
         /\ k1 < k2
         /\ handlers[h].calls[k1].name = OTHER_TOOL
         /\ Idx("send", h, k2) # {}

\* ------------------------------------------------------ session lifecycle
\* the transitions of the state machine, as <<state reported before, state
\* reported now>>: connect, remote open, remote close or error, and a fault
\* from any state
Transitions ==
  { <<"DISCONNECTED", "CONNECTING">>, <<"CONNECTING", "CONNECTED">>,
    <<"CONNECTED", "DISCONNECTED">>, <<"CONNECTED", "ERROR">> }
  \cup { <<st, "ERROR">> : st \in {"DISCONNECTED", "CONNECTING", "CONNECTED"} }

\* C11 (state machine): every step that reports another state than the one
\* reported last follows a transition of the state machine or is a call of
\* disconnect(); in particular CONNECTED is reported only when the state
\* reported last is CONNECTING.
C11_StateMachine ==
  [][connState' # connState =>
       /\ (<<connState, connState'>> \in Transitions \/ Disconnect)
       /\ (connState' = "CONNECTED" => connState = "CONNECTING")]_vars

\* reactions calling session.close() in a queue of reactions
CloseScheduled(q) == \E j \in 1..Len(q) : q[j].type = "close"

\* the instances whose transport session is open with no close on its way
OpenSessions ==
  {i \in Instances : /\ Svc(i).transport = "open"
                     /\ ~CloseScheduled(Svc(i).thenQ)
                     /\ ~CloseScheduled(Svc(i).jobs)}

\* C12 (one live session): at most one instance has an open transport
\* session that is not about to be closed, whatever start requests, stop
\* requests and remote events occurred.
C12_OneLiveSession == Cardinality(OpenSessions) <= 1

\* C13 (teardown order): when session.close() is called, the capture callback
\* has been removed and no buffer is left in the live set, and no chunk is
\* handed to the transport and no buffer is started after that call.
C13_TeardownOrder ==
  \A c \in Events("close") :
    /\ ~log[c].open
    /\ log[c].set = {}
    /\ \A i \in Events("chunk") \cup Events("start") : i < c

\* a start request that finds an instance in serviceRef
Reconnect == serviceRef # 0 /\ serviceRef' # serviceRef

\* C14 (reconnection tears down first): when handleStart has replaced an
\* instance, the tracks of its stream are stopped, its capture is off, its
\* live set is empty and its transport session is closed, closing or has a
\* close scheduled (or it has none yet).
C14_TeardownBeforeNew ==
  [][Reconnect =>
       /\ ~tracksLive'
       /\ ~capturing'
       /\ sources' = {}
       /\ \/ transport' \in {"none", "closing", "closed"}
          \/ CloseScheduled(jobs')
          \/ CloseScheduled(thenQ')]_vars

\* disconnect() has run: the input context connect() created is null again
DisconnectHasRun == connectPc # "idle" /\ ~inputAudioContext

\* the step is reader.onload of chunk c
LoadStep(c) == c \in readers /\ c \notin readers'

\* C15 (send after teardown): a chunk whose base64 text becomes ready after
\* disconnect() has run is not handed to the session (no reaction calling
\* sendRealtimeInput is registered for it), and every chunk passed to
\* sendRealtimeInput had its text ready before the session was torn down.
C15_SendAfterTeardown ==
  [][/\ \A c \in 1..MaxChunks :
          (LoadStep(c) /\ DisconnectHasRun) => (jobs' = jobs /\ thenQ' = thenQ)
     /\ LET after == log'
        IN \A i \in 1..Len(after) : \A td \in 1..Len(after) :
             (after[i].type = "chunk" /\ after[td].type = "teardown")
             => \E l \in 1..(td - 1) :
                  after[l].type = "load" /\ after[l].k = after[i].k]_vars

\* one chunk was sent while the session lived, and the text of another
\* became ready after the teardown and went nowhere
C15_Witness ==
  /\ DisconnectHasRun
  /\ Events("chunk") # {}
  /\ \E l \in Events("load") : \E td \in Events("teardown") :
       /\ td < l
       /\ Idx("chunk", 0, log[l].k) = {}
  /\ jobs = <<>>
  /\ thenQ = <<>>
  /\ sessionResolved

\* C16 (remote close or error destroys the session): once the transport
\* session is closing or closed, capture is not active, and every audio
\* chunk and tool response is sent on an open transport session.
C16_RemoteEndDestroys ==
  /\ transport \in {"closing", "closed"} => ~capturing
  /\ \A i \in Events("chunk") \cup Events("send") : log[i].open

C18_LoggedTransitions == [][connState' # connState => logs' > logs]_vars

\* ------------------------------------------------------ message dispatch
\* the handler that runs the transcript part of handleMessage in the step
Dispatched ==
  {h \in 1..Len(handlers') :
     /\ handlers'[h].pc \in {"lookup", "done"}
     /\ (h > Len(handlers) \/ handlers[h].pc = "decode")}

\* the merge as claimed: the list after an update of sender snd with delta
\* txt (an empty delta leaves the list alone)
Appended(prev, snd, txt) ==
  IF txt = <<>> THEN prev
  ELSE IF Len(prev) > 0 /\ prev[Len(prev)].sender = snd
       THEN SubSeq(prev, 1, Len(prev) - 1)
            \o << [sender |-> snd, text |-> prev[Len(prev)].text \o txt] >>
       ELSE prev \o << [sender |-> snd, text |-> txt] >>

\* C19 (transcript merge): the step that handles the transcriptions of a
\* message leaves the list as the claimed merge gives it, for the input text
\* then the output text; every other step leaves the list unchanged; and
\* merging an empty delta changes the text of no entry.
C19_TranscriptMerge ==
  [][/\ \A h \in Dispatched :
          transcripts' = Appended(Appended(transcripts, "user", handlers'[h].input),
                                  "agent", handlers'[h].output)
     /\ Dispatched = {} => transcripts' = transcripts
     /\ \A snd \in {"user", "agent"} :
          LET merged == onTranscript(transcripts, <<>>, snd)
          IN \A i \in 1..Len(transcripts) : merged[i].text = transcripts[i].text]_vars

\* a user entry extended by a second delta, followed by an agent entry
C19_Witness ==
  /\ Len(transcripts) = 2
  /\ transcripts[1] = [sender |-> "user", text |-> <<"a", "a">>]
  /\ transcripts[2] = [sender |-> "agent", text |-> <<"b">>]

\* the positions, in the history, of the events of message h of the types
EventsOf(h, types) == {i \in 1..Len(log) : log[i].h = h /\ log[i].type \in types}

\* C20 as claimed: the events of one message come in the order audio
\* start, interruption, transcript updates, lookups; and the buffer of a
\* message that also carries the interruption signal is scheduled on the
\* timeline the interruption has reset, that is at the playback clock's value
\* when the message was delivered.
C20_DispatchOrder ==
  \A h \in 1..Len(handlers) :
    /\ \A i \in EventsOf(h, {"start"}) :
         \A j \in EventsOf(h, {"interrupt", "transcript", "lookupStart"}) : i < j
    /\ \A i \in EventsOf(h, {"interrupt"}) :
         \A j \in EventsOf(h, {"transcript", "lookupStart"}) : i < j
    /\ \A i \in EventsOf(h, {"transcript"}) :
         \A j \in EventsOf(h, {"lookupStart"}) : i < j
    /\ handlers[h].interrupted =>
         \A i \in EventsOf(h, {"start"}) : log[i].t = log[Delivery(h)].c

\* the handler of message h is past the transcript part of handleMessage
PastDispatch(h) == handlers[h].pc \in {"lookup", "done"}

\* C20 (amended): the events of one message come in the order audio start,
\* interruption, transcript updates, lookups; the interruption signal of a
\* message is handled once, after the audio part: a buffer the message itself
\* carries is started on the timeline as it was and is among the buffers the
\* interruption then stops.
C20_InterruptAfterAudio ==
  \A h \in 1..Len(handlers) :
    /\ \A i \in EventsOf(h, {"start"}) :
         \A j \in EventsOf(h, {"interrupt", "transcript", "lookupStart"}) : i < j
    /\ \A i \in EventsOf(h, {"interrupt"}) :
         \A j \in EventsOf(h, {"transcript", "lookupStart"}) : i < j
    /\ \A i \in EventsOf(h, {"transcript"}) :
         \A j \in EventsOf(h, {"lookupStart"}) : i < j
    /\ Cardinality(EventsOf(h, {"interrupt"})) =
         (IF handlers[h].interrupted /\ PastDispatch(h) THEN 1 ELSE 0)
    /\ \A i \in EventsOf(h, {"start"}) : \A j \in EventsOf(h, {"interrupt"}) :
         h \in log[j].set

\* a message with audio, the interruption signal, both transcriptions and a
\* tool call was dispatched after another buffer had moved the cursor
C20_Witness ==
  \E h \in 1..Len(handlers) :
    /\ EventsOf(h, {"lookupStart"}) # {}
    /\ Cardinality(EventsOf(h, {"transcript"})) = 2
    /\ \E i \in EventsOf(h, {"start"}) : \E j \in EventsOf(h, {"interrupt"}) :
         /\ log[i].t > log[Delivery(h)].c
         /\ log[j].set = {1, 2}

\* ------------------------------------------------------ state invariants
\* C21 (monotone cursor): nextStartTime never decreases in a step, except in
\* the step that processes an interruption signal.
C21_CursorMonotone ==
  [][nextStartTime' < nextStartTime => InterruptStep]_vars

\* an interruption lowered a cursor that was ahead, and the buffer of a later
\* message has raised it again
C21_Witness ==
  \E i \in Events("start") : \E x \in Events("interrupt") : \E j \in Events("start") :
    /\ i < x /\ x < j
    /\ log[i].t + log[i].d > 0
    /\ nextStartTime = log[j].t + log[j].d
    /\ nextStartTime > 0

\* message h's buffer has been started / has been stopped by an interruption
HasStarted(h) == \E i \in Events("start") : log[i].h = h

HasBeenStopped(h) ==
  \E i \in Events("start") : \E x \in Events("interrupt") :
    log[i].h = h /\ i < x /\ h \in log[x].set

\* C22 (live set): the live set holds exactly the buffers whose playback is
\* under way or still to come: every member has been started, has not been
\* stopped and plays on an output context that has not been closed; and every
\* started buffer that has not been stopped and cannot have played to its end
\* yet is a member.
C22_LiveSet ==
  \A h \in 1..Len(handlers) :
    /\ h \in sources => (HasStarted(h) /\ ~HasBeenStopped(h) /\ outputAudioContext)
    /\ (/\ HasStarted(h) /\ ~HasBeenStopped(h) /\ outputAudioContext
        /\ clock < EndTime(h)) => h \in sources

\* ------------------------------------------------------- capture pipeline
\* the reactions of queue q that send chunk k
ChunkReactions(q, k) == {i \in 1..Len(q) : q[i].type = "chunk" /\ q[i].k = k}

\* where chunk k is: sent, waiting for the session promise, or about to be sent
ChunkCopies(k) ==
  Cardinality(Idx("chunk", 0, k)) + Cardinality(ChunkReactions(thenQ, k))
    + Cardinality(ChunkReactions(jobs, k))

\* the text of chunk k became ready before any teardown of the session
LoadedLive(k) ==
  \E l \in Idx("load", 0, k) : \A td \in Events("teardown") : l < td

\* C23 (chunks are consumed once): every capture callback has its own chunk;
\* no chunk is passed to sendRealtimeInput twice; a chunk whose text became
\* ready while the session was live is sent, waits for the session promise or
\* is the next thing sent, in exactly one copy; once the session promise has
\* been resolved none waits any longer, and when the reactions have run each
\* of these chunks has been sent exactly once.
C23_ChunkOnce ==
  /\ \A i \in Events("capture") : \A j \in Events("capture") :
       log[i].k = log[j].k => i = j
  /\ \A k \in 1..chunks :
       /\ Idx("capture", 0, k) # {}
       /\ ChunkCopies(k) <= 1
       /\ LoadedLive(k) => ChunkCopies(k) = 1
       /\ sessionResolved => ChunkReactions(thenQ, k) = {}
       /\ (LoadedLive(k) /\ sessionResolved /\ jobs = <<>>)
          => Cardinality(Idx("chunk", 0, k)) = 1

\* two chunks were captured before the session promise was resolved, their
\* texts became ready while it was pending, and both were sent, in capture
\* order, once it had been resolved
C23_Witness ==
  /\ sessionResolved
  /\ jobs = <<>>
  /\ \E l1 \in Idx("load", 0, 1) : \E l2 \in Idx("load", 0, 2) :
     \E s1 \in Idx("chunk", 0, 1) : \E s2 \in Idx("chunk", 0, 2) :
       /\ log[l1].name = "pending" /\ log[l2].name = "pending"
       /\ l1 < l2 /\ l2 < s1 /\ s1 < s2

\* ------------------------------------------------------- knowledge lookup
\* every text a search can resolve to: a content of the store or a sentinel
StoreTexts ==
  {INITIAL_DATA[i].content : i \in 1..Len(INITIAL_DATA)} \cup NewContents

\* C24 (the lookup always answers): a search resolves to a text for every
\* query and every store reached by adding, deleting and resetting, and when
\* no entry of the store matches the query, the text is the policy fallback
\* or the not-found sentinel.
C24_SearchAnswers ==
  found # <<>> =>
    /\ found.text \in StoreTexts \cup {INDEX_POLICIES, NOT_FOUND}
    /\ found.matched = <<>> => found.text \in {INDEX_POLICIES, NOT_FOUND}
    /\ found.matched # <<>> => found.text \in StoreTexts

\* a search that matched nothing resolved on a store from which an initial
\* entry had been deleted and to which an entry had been added
C24_Witness ==
  /\ found # <<>>
  /\ found.matched = <<>>
  /\ found.text = NOT_FOUND
  /\ added > 0
  /\ Len(runtimeDatabase) <= Len(INITIAL_DATA)

\* the longest of the texts of a non-empty sequence
Longest(texts) ==
  CHOOSE n \in {Len(texts[i]) : i \in 1..Len(texts)} :
    \A i \in 1..Len(texts) : Len(texts[i]) <= n

\* C26 (longest match): when several entries match the query, the search
\* resolves to the longest content among the matching entries.
C26_LongestMatch ==
  (found # <<>> /\ Len(found.matched) > 1) => Len(found.text) = Longest(found.matched)

\* ----------------------------------------------------------- capture data
\* C25 (PCM encoder): the encoder gives one 16-bit sample per input sample,
\* in the same order; the sample of an input s in [-1, 1] is s * 32767
\* rounded to the nearest integer (0.5 gives 16384); every output lies in
\* the signed 16-bit range.
C25_Encoder ==
  \A e \in Events("capture") :
    LET pcm == log[e].query
    IN /\ Len(pcm) = Len(inputData)
       /\ \A i \in 1..Len(pcm) :
            /\ 0 - 32768 <= pcm[i] /\ pcm[i] <= 32767
            /\ InRange(inputData[i]) =>
                 2 * Abs(pcm[i] * SampleUnit - inputData[i] * 32767) <= SampleUnit
            /\ 2 * inputData[i] = SampleUnit => pcm[i] = 16384

\* a block holding the sample 0.5 and a sample above 1 was encoded
C25_Witness ==
  \E e \in Events("capture") :
    /\ \E i \in 1..Len(inputData) :
         2 * inputData[i] = SampleUnit /\ log[e].query[i] = 16384
    /\ \E i \in 1..Len(inputData) :
         inputData[i] > SampleUnit /\ log[e].query[i] = 32767

\* C27 (visualization frame): the frame passed to onAudioData for a capture
\* callback has one byte per sample of the block; the byte of a sample s in
\* [-1, 1] is the integer part of |s| * 255; and the frame is emitted before
\* the block is encoded, which is before the chunk is sent.
C27_VisualFrame ==
  /\ \A f \in Events("frame") :
       LET frame == log[f].query
       IN /\ Len(frame) = Len(inputData)
          /\ \A i \in 1..Len(frame) :
               /\ frame[i] \in 0..255
               /\ InRange(inputData[i]) =>
                    /\ frame[i] * SampleUnit <= Abs(inputData[i]) * 255
                    /\ Abs(inputData[i]) * 255 < (frame[i] + 1) * SampleUnit
  /\ \A e \in Events("capture") :
       \E f \in Idx("frame", 0, log[e].k) : f < e
  /\ \A c \in Events("chunk") :
       \E f \in Idx("frame", 0, log[c].k) : \E e \in Idx("capture", 0, log[c].k) :
         f < e /\ e < c

\* the frame of a block holding a negative sample inside the range and the
\* sample -1 was emitted, and the chunk of the block has been sent
C27_Witness ==
  \E c \in Events("chunk") : \E f \in Idx("frame", 0, log[c].k) :
    /\ f < c
    /\ \E i \in 1..Len(inputData) :
         /\ inputData[i] < 0 /\ inputData[i] > 0 - SampleUnit
         /\ log[f].query[i] > 0
    /\ \E i \in 1..Len(inputData) :
         inputData[i] = 0 - SampleUnit /\ log[f].query[i] = 255

\* the texts of a sequence of tokens, joined in order
RECURSIVE Concat(_)
Concat(ts) == IF ts = <<>> THEN "" ELSE ts[1] \o Concat(Tail(ts))

\* the texts of the "token" events of a history, in order
RECURSIVE TokenTexts(_)
TokenTexts(l) ==
  IF l = <<>> THEN <<>>
  ELSE (IF l[1].type = "token" THEN << l[1].text >> ELSE <<>>) \o TokenTexts(Tail(l))

\* C28: processTextQuery returns as text the concatenation, in order, of the
\* tokens it passed to onToken (those of the first turn, then those of each
\* answer to a function response), or the fallback sentence when it passed
\* none; without an API key it throws before any call of the model; it throws
\* when the speech response carries no audio.
C28_ReturnedText ==
  /\ tokens = TokenTexts(tlog)
  /\ tpc = "returned" =>
       /\ ret.text = (IF tokens = <<>> THEN FALLBACK_TEXT ELSE Concat(tokens))
       /\ ret.audioBase64 # ""
  /\ ~apiKey => tpc \in {"idle", "thrown"} /\ tlog = <<>>
  /\ (tlog # <<>> /\ tlog[Len(tlog)].type = "speech" /\ tlog[Len(tlog)].text = "")
       => tpc = "thrown"

\* a query returned the text of three tokens, one of them of an answer stream
C28_Witness ==
  /\ tpc = "returned"
  /\ Len(tokens) = 3
  /\ ret.text \in {"aba", "abb", "baa"}
  /\ \E p \in DOMAIN tlog : tlog[p].type = "token" /\ tlog[p].k > 0

\* the function calls the first turn carried: those of the "calls" events
\* before the first end of a stream
RECURSIVE FirstTurnCalls(_)
FirstTurnCalls(l) ==
  IF l = <<>> \/ l[1].type = "streamEnd" THEN <<>>
  ELSE l[1].calls \o FirstTurnCalls(Tail(l))

\* the positions of the history holding an event of the type for position k
At(type, k) == {p \in DOMAIN tlog : tlog[p].type = type /\ tlog[p].k = k}

\* C29: each search_knowledge_base call of the first turn causes one lookup
\* and then one function response, in the order the calls were received; the
\* answer to a response is consumed to its end before the next lookup starts;
\* the loop is over once it has passed every call; calls carried by an answer
\* cause no lookup.
C29_SingleTurnLoop ==
  LET first == FirstTurnCalls(tlog)
      kb == {k \in DOMAIN first : first[k].name = KB_TOOL}
      lookups == {p \in DOMAIN tlog : tlog[p].type = "lookup"}
  IN /\ \A p \in lookups :
          /\ tlog[p].k \in kb
          /\ tlog[p].query = first[tlog[p].k].query
          /\ \A j \in kb : j < tlog[p].k =>
               \E q \in At("lookup", j) : \E r \in At("response", j) :
                 \E e \in At("streamEnd", j) : q < r /\ r < e /\ e < p
     /\ \A k \in DOMAIN first \cup {fcPos} :
          /\ Cardinality(At("lookup", k)) <= 1
          /\ Cardinality(At("response", k)) <= 1
          /\ \A r \in At("response", k) :
               /\ tlog[r].name = KB_TOOL
               /\ \E q \in At("lookup", k) : q < r
     /\ \A p \in DOMAIN tlog : tlog[p].type = "response" => tlog[p].k \in kb
     /\ (\E p \in DOMAIN tlog : tlog[p].type = "tts") =>
          \A k \in kb : At("lookup", k) # {} /\ At("response", k) # {}

\* two calls of the first turn were looked up and answered, and an answer
\* carried a function call of its own
C29_Witness ==
  /\ tpc = "returned"
  /\ Cardinality({p \in DOMAIN tlog : tlog[p].type = "response"}) = 2
  /\ \E p \in DOMAIN tlog : tlog[p].type = "calls" /\ tlog[p].k > 0

\* C30 (interruption cancels earlier audio): no buffer is started, and so
\* added to the live set, after an interruption was processed that came later
\* than the delivery of the buffer's audio message.
C30_InterruptCancels ==
  \A j \in Events("start") : \A x \in Events("interrupt") :
    (Delivery(log[j].h) < x) => j < x

\* C31 (no start in the past): every buffer is started with a start time at
\* or after the value the playback clock has when start is called.
C31_StartNotInPast ==
  \A j \in Events("start") : log[j].t >= log[j].c

\* C32 (handling never fails): no invocation of handleMessage ends with an
\* error, and no buffer is started once disconnect() has released the output
\* audio context.
C32_HandlerNeverFails ==
  /\ \A h \in 1..Len(handlers) : handlers[h].pc # "failed"
  /\ \A j \in Events("start") : \A x \in Events("teardown") : j < x

\* C33 (state of the newest service): while the transport session of the
\* instance in serviceRef is open with no close on its way and that instance
\* last reported CONNECTED, the connection state shown is not DISCONNECTED.
C33_NewestSessionShown ==
  (/\ serviceRef \in OpenSessions
   /\ Svc(serviceRef).connState = "CONNECTED")
    => connectionState # "DISCONNECTED"

\* disconnect() has run while connect() awaits the microphone or the
\* transport connect
TornDownInProgress == DisconnectHasRun /\ connectPc \in {"awaitMic", "awaitLive"}

\* nothing of the attempt is left: no transport session that is not closed,
\* no live track of the microphone stream, no capture
Released == transport \in {"none", "closed"} /\ ~tracksLive /\ ~capturing

\* C34 (disconnect during connect): after a disconnect() that came while
\* connect() was in progress, capture never starts and from some moment on
\* the transport session of the attempt is closed and the microphone stream
\* is stopped.
C34_DisconnectDuringConnect ==
  /\ [](TornDownInProgress => [](~capturing))
  /\ [](TornDownInProgress => <>[]Released)

\* C36 (alternating senders): no two adjacent entries of the transcript list
\* have the same sender.
C36_AlternatingSenders ==
  \A i \in 1..(Len(transcripts) - 1) :
    transcripts[i].sender # transcripts[i + 1].sender

\* the entry holds the tokens in order: as the pieces added one by one, or as
\* the one piece written from the returned text
HoldsTokens(e) ==
  \/ \E i \in DOMAIN e.text : e.text[i] = Concat(tokens)
  \/ \E i \in 1..(Len(e.text) + 1) :
       /\ i + Len(tokens) - 1 <= Len(e.text)
       /\ SubSeq(e.text, i, i + Len(tokens) - 1) = tokens

\* C37 (no token lost): once the query of a submission has returned, its
\* handler has finished and the placeholder timer has fired, an agent entry of
\* the transcript list holds every token passed to onToken, in order.
C37_NoTokenLost ==
  (/\ submits > 0
   /\ tpc = "returned"
   /\ spc = "idle"
   /\ placeholder = 0)
    => \E i \in DOMAIN transcripts :
         transcripts[i].sender = "agent" /\ HoldsTokens(transcripts[i])

\* a voice call is being set up or is under way
VoiceActive ==
  \/ connectionState \in {"CONNECTING", "CONNECTED"}
  \/ \E i \in Instances : Svc(i).capturing

\* C38 (text answer and call apart): a text answer is started only while the
\* connection state is DISCONNECTED; a start request leaves no text answer
\* playing; at most one text-answer source plays; and no text answer plays
\* while a call is being set up or is under way.
C38_TtsVoiceExclusive ==
  /\ [][~(ttsPlaying' \subseteq ttsPlaying) => connectionState = "DISCONNECTED"]_vars
  /\ [][serviceRef' # serviceRef => ttsPlaying' = {}]_vars
  /\ [](Cardinality(ttsPlaying) <= 1)
  /\ [](ttsPlaying # {} => ~VoiceActive)

\* C35 (input re-enabled): whenever isProcessingText is true it becomes false
\* again later.
C35_InputReenabled == isProcessingText ~> ~isProcessingText

====
